---- MODULE Spec2Model ----
(***************************************************************************)
(* A model of the Mori bot engine (src/src/core/mod.rs): the proxy pool    *)
(* claimed in Bot::new, the session state machine (reconnect, to_http,     *)
(* get_oauth_links, get_token, token_still_valid, sleep), the primary      *)
(* engine loop (process_events), the passive-behaviour thread (poll) and   *)
(* relog called from a controlling thread.                                 *)
(***************************************************************************)
EXTENDS Integers, Sequences, FiniteSets, TLC

\* ------------------------------------------------------------------ bounds
\* Number of Bot::new calls that share one proxy pool.
NumBots == 4
\* Number of entries of the shared proxy pool.
NumProxies == 2
\* config::get_timeout(): the seconds one sleep() call adds to info.timeout.
TimeoutSecs == 2

\* ------------------------------------------------------- program constants
\* Bot::new: `proxy.whos_using.len() < 3`.
ProxyCap == 3

Bots == 1..NumBots
\* The threads that run reconnect: the primary engine thread (logon ->
\* process_events) and a controlling thread that calls relog.
Runners == {"main", "ctl"}
Threads == {"main", "ctl", "poll"}

VARIABLES
    \* ---- the proxy pool shared by every Bot (ProxyManager.proxies)
    proxies,        \* Seq of whos_using lists, one per pool entry
    pmLock,         \* holder of proxy_manager's write lock: 0 = free, else bot
    ctor,           \* per bot: position of its Bot::new call
    ctorIdx,        \* per bot: proxy_index found by position(), 0 = None
    useProxy,       \* per bot: config::get_bot_use_proxy(payload[0])
    socket,         \* per bot: "none" | "udp" | "socks5"
    \* ---- one Bot's shared state
    is_running,     \* State.is_running
    is_redirecting, \* State.is_redirecting
    server,         \* Server {ip, port}: "" = default (unset)
    token,          \* Info.token
    login_method,   \* Info.login_method
    oauth_links,    \* Info.oauth_links
    server_data,    \* Info.server_data: [server, port], "" = key absent
    timeout,        \* Info.timeout
    peer_id,        \* Option<PeerID>: "None" | "Some"
    peer,           \* the host's single peer: "free" | "connecting" | "connected" | "disconnecting"
    hostLock,       \* holder of the host mutex: "free" or a thread
    \* ---- per thread
    pc,             \* position of each thread
    loc,            \* locals of each thread's current calls
    \* ---- observation
    oauthReturned,  \* get_oauth_links has returned Ok at least once
    \* ---- the packet layer
    last,           \* what the last handler call or network action did
    \* ---- the action surface
    world,          \* World: [name, dropped]
    position,       \* Position in pixels: [x, y]
    inventory,      \* Inventory: [size, item_count, items]
    act,            \* the action call in progress or last finished
    \* ---- the per-field locks
    lk,             \* per lock: its writer ("none" or a thread) and its readers
    at,             \* per thread: the operation it runs and its place in it
    ping,           \* Info.ping
    \* ---- status, log and the warp flag
    status,         \* Info.status
    channel,        \* the log channel: [queue, senders]
    logs,           \* Bot.logs, the shared log buffer
    logger,         \* the log-consumer thread: [state, held]
    is_not_allowed_to_warp  \* State.is_not_allowed_to_warp

poolVars == <<proxies, pmLock, ctor, ctorIdx, useProxy, socket>>
flagVars == <<is_running, is_redirecting, server>>
infoVars == <<token, login_method, oauth_links, server_data, timeout>>
hostVars == <<peer_id, peer, hostLock>>
botVars == <<flagVars, infoVars, hostVars, pc, loc, oauthReturned>>
pktVars == <<last>>
actVars == <<world, position, inventory, act>>
lockVars == <<lk, at, ping>>
miscVars == <<status, channel, logs, logger, is_not_allowed_to_warp>>
vars == <<poolVars, botVars, pktVars, actVars, lockVars, miscVars>>

\* ------------------------------------------------------------- the proxy pool

\* proxies.iter().position(|proxy| proxy.whos_using.len() < 3); 0 is None.
FirstBelowCapLoose(ps) ==
    IF \E i \in 1..Len(ps) : Len(ps[i]) <= ProxyCap
    THEN CHOOSE i \in 1..Len(ps) :
            /\ Len(ps[i]) <= ProxyCap
            /\ \A j \in 1..(i - 1) : ~(Len(ps[j]) <= ProxyCap)
    ELSE 0

FirstBelowCapLast(ps) ==
    IF \E i \in 1..Len(ps) : Len(ps[i]) < ProxyCap
    THEN CHOOSE i \in 1..Len(ps) :
            /\ Len(ps[i]) < ProxyCap
            /\ \A j \in (i + 1)..Len(ps) : ~(Len(ps[j]) < ProxyCap)
    ELSE 0

FirstBelowCap(ps) ==
    IF \E i \in 1..Len(ps) : Len(ps[i]) < ProxyCap
    THEN CHOOSE i \in 1..Len(ps) :
            /\ Len(ps[i]) < ProxyCap
            /\ \A j \in 1..(i - 1) : ~(Len(ps[j]) < ProxyCap)
    ELSE 0

\* Bot::new reads the configuration: no proxy -> straight to the UDP bind;
\* proxy -> proxy_manager.write() (blocks while another constructor holds it).
NewStart(b) ==
    /\ ctor[b] = "new"
    /\ IF useProxy[b]
       THEN /\ pmLock = 0
            /\ pmLock' = b
            /\ ctor' = [ctor EXCEPT ![b] = "find"]
       ELSE /\ ctor' = [ctor EXCEPT ![b] = "bind"]
            /\ UNCHANGED pmLock
    /\ UNCHANGED <<proxies, ctorIdx, useProxy, socket, botVars, pktVars, actVars, lockVars, miscVars>>

\* position(): the first entry below the cap, under the write lock.
NewFind(b) ==
    /\ ctor[b] = "find"
    /\ pmLock = b
    /\ ctorIdx' = [ctorIdx EXCEPT ![b] = FirstBelowCap(proxies)]
    /\ ctor' = [ctor EXCEPT ![b] = "push"]
    /\ UNCHANGED <<proxies, pmLock, useProxy, socket, botVars, pktVars, actVars, lockVars, miscVars>>

\* whos_using.push(payload[0]) on the entry found (if any); the write guard
\* is dropped at the end of the block.
NewPush(b) ==
    /\ ctor[b] = "push"
    /\ pmLock = b
    /\ proxies' = IF ctorIdx[b] = 0 THEN proxies
                  ELSE [proxies EXCEPT ![ctorIdx[b]] = Append(@, b)]
    /\ pmLock' = 0
    /\ ctor' = [ctor EXCEPT ![b] = "bind"]
    /\ UNCHANGED <<ctorIdx, useProxy, socket, botVars, pktVars, actVars, lockVars, miscVars>>

\* The socket: SOCKS5 through the claimed proxy, else a direct UDP socket.
NewBind(b) ==
    /\ ctor[b] = "bind"
    /\ socket' = [socket EXCEPT ![b] = IF ctorIdx[b] # 0 THEN "socks5" ELSE "udp"]
    /\ ctor' = [ctor EXCEPT ![b] = "done"]
    /\ UNCHANGED <<proxies, pmLock, ctorIdx, useProxy, botVars, pktVars, actVars, lockVars, miscVars>>

NextPool ==
    \/ \E b \in Bots : NewStart(b)
    \/ \E b \in Bots : NewFind(b)
    \/ \E b \in Bots : NewPush(b)
    \/ \E b \in Bots : NewBind(b)

\* ------------------------------------------------------------ the session

\* ELoginMethod; APPLE stands for every method get_token's match sends to `_`.
Methods == {"GOOGLE", "LEGACY", "STEAM", "APPLE"}
\* The link list the dashboard pattern extracts (apple, google, legacy).
ThreeLinks == <<"apple", "google", "legacy">>
\* Info.server_data after parse_server_data, reduced to the two keys that
\* reconnect reads; "" is what get(..).cloned().unwrap_or_default() yields
\* for an absent key.
NoServerData == [server |-> "", port |-> ""]
GoodServerData == [server |-> "1.2.3.4", port |-> "17091"]
\* A discovery body as its lines, each split at its first `|` (splitn(2, '|')):
\* <<key, value>>, or <<text>> for a line without one.
RawDiscoveryBodies ==
    { << <<"server", "1.2.3.4">>, <<"port", "17091">>, <<"meta", "m">> >>,
      << <<"server", "9.9.9.9">>, <<"server", "1.2.3.4">>, <<"port", "17091">> >>,
      << <<"maintenance">> >>,
      << >> }
\* The value the collected HashMap holds for `key` (a later line replaces an
\* earlier one; lines without `|` are filtered out), "" when there is none.
RECURSIVE Lookup(_, _)
Lookup(lines, key) ==
    IF lines = <<>> THEN ""
    ELSE LET l == lines[Len(lines)] IN
         IF Len(l) = 2 /\ l[1] = key THEN l[2]
         ELSE Lookup(SubSeq(lines, 1, Len(lines) - 1), key)
\* parse_server_data, read back by reconnect.
ParseServerData(lines) ==
    [server |-> Lookup(lines, "server"), port |-> Lookup(lines, "port")]
DiscoveryBodies == {ParseServerData(b) : b \in RawDiscoveryBodies}
\* Server::default()
NoServer == [ip |-> "", port |-> "0"]
RedirectServer == [ip |-> "5.6.7.8", port |-> "17092"]

\* The record of an operation of the packet layer: the operation, its input
\* (payload bytes or TankPacket), the text messages it passed to
\* send_packet, the buffers peer.send accepted, the error! / log_error
\* lines, the payloads passed to variant_handler::handle and the buffer
\* send_packet_raw built.
NoPkt == [type |-> 0, mid |-> <<>>, ext |-> 0]
NoOp ==
    [ op     |-> "none",
      data   |-> <<>>,
      pkt    |-> NoPkt,
      handed |-> <<>>,
      wire   |-> <<>>,
      errs   |-> 0,
      disp   |-> <<>>,
      built  |-> <<>>
    ]

\* No refresh reply received.
NoReply == [status |-> "none", token |-> ""]

\* Locals of a thread's current calls; reset when the call returns.
NoLoc ==
    [ ret       |-> "none",   \* reconnect's return value: "none" | "true" | "false"
      sleepRet  |-> "none",   \* where the current sleep() call returns to
      decs      |-> 0,        \* decrements done by the current sleep() call
      reply     |-> NoReply,  \* the last 200 JSON reply of the refresh request
      resp      |-> "none",   \* the login path's token about to be stored
      tokOut    |-> "none",   \* how get_token ended: "none" | "ok" | "failed" | "invalid"
      links     |-> <<>>,     \* get_oauth_links' Ok value
      ev        |-> "none",   \* the event host.service() returned
      tgt       |-> NoServer  \* process_events' (ip, port)
    ]

\* The pool when the constructions start: each entry is unclaimed or holds
\* two identities (0) recorded by constructions that ran earlier.
InitPool ==
    /\ proxies \in [1..NumProxies -> {<<>>, <<0, 0>>}]
    /\ pmLock = 0
    /\ ctor = [b \in Bots |-> "new"]
    /\ ctorIdx = [b \in Bots |-> 0]
    /\ useProxy \in [Bots -> BOOLEAN]
    /\ socket = [b \in Bots |-> "none"]

\* World::new(): no world entered, nothing dropped.
NoWorld == [name |-> "EXIT", dropped |-> <<>>]

\* Position::default().
Origin == [x |-> 0, y |-> 0]

\* Inventory::new(): items maps an item id to the amount of its stack.
EmptyInventory == [size |-> 0, item_count |-> 0, items |-> <<>>]

\* No action call yet: the packets handed to send_packet_raw, the events
\* (packets and delays) in their order, the log lines, and the waypoints a
\* path playback still has to visit.
NoAct == [op |-> "none", arg |-> <<>>, raws |-> <<>>, trace |-> <<>>, logs |-> 0,
          path |-> <<>>]

\* The locks the actions take, one per field of Bot.
LockNames == {"state", "server", "info", "peer_id", "host", "position", "world", "inventory"}

\* Every lock free, no thread inside an operation.
FreeLocks == [l \in LockNames |-> [w |-> "none", r |-> {}]]

\* A thread between operations: the operation, the place in it, and whether
\* the step that brought it there was other than a failed lock attempt.
Resting == [op |-> "idle", i |-> 1, got |-> TRUE]

\* The fields of a constructed bot that the actions work on.
\* The channel with the sender the Bot keeps and nothing in flight.
NewChannel == [queue |-> <<>>, senders |-> 1]

\* The log-consumer thread in receiver.recv(), holding no message.
Listening == [state |-> "recv", held |-> <<>>]

\* Info::default().status, an empty log buffer, State::default().
InitMisc ==
    /\ status = ""
    /\ channel = NewChannel
    /\ logs = <<>>
    /\ logger = Listening
    /\ is_not_allowed_to_warp = FALSE

InitFields ==
    /\ InitMisc
    /\ world = NoWorld
    /\ position = Origin
    /\ inventory = EmptyInventory
    /\ act = NoAct
    /\ lk = FreeLocks
    /\ at = [t \in Threads |-> Resting]
    /\ ping = 0

\* Bot::new: Info from the configuration, State::default(), Server::default(),
\* peer_id None, timeout 0.
InitBot ==
    /\ is_running = FALSE
    /\ is_redirecting = FALSE
    /\ server = NoServer
    /\ token \in {"", "tokA"}
    /\ login_method \in Methods
    /\ oauth_links = <<>>
    /\ server_data = NoServerData
    /\ timeout = 0
    /\ peer_id = "None"
    /\ peer = "free"
    /\ hostLock = "free"
    /\ pc = [t \in Threads |-> IF t = "main" THEN "logon" ELSE IF t = "ctl" THEN "idle" ELSE "unborn"]
    /\ loc = [t \in Threads |-> NoLoc]
    /\ oauthReturned = FALSE
    /\ last = NoOp
    /\ InitFields

\* A pool nobody has claimed from, with no constructor using a proxy.
IdlePool ==
    /\ proxies = [i \in 1..NumProxies |-> <<>>]
    /\ pmLock = 0
    /\ ctor = [b \in Bots |-> "new"]
    /\ ctorIdx = [b \in Bots |-> 0]
    /\ useProxy = [b \in Bots |-> FALSE]
    /\ socket = [b \in Bots |-> "none"]

\* A bot that has been constructed and is not logged on.
IdleBot ==
    /\ InitBot
    /\ token = ""
    /\ login_method = "LEGACY"

\* The constructions on a shared pool.
InitNew == InitPool /\ IdleBot

\* One constructed bot.
Init == IdlePool /\ InitBot

\* Only thread t moves, to position p.
Goto(t, p) == pc' = [pc EXCEPT ![t] = p]


\* ------------------------------------------------------------------- sleep

\* The decrements of one sleep() call are counted up to one more than the
\* configured seconds: enough to tell "exactly TimeoutSecs" from "more".
CountUp(n) == IF n > TimeoutSecs THEN n ELSE n + 1

\* sleep(), first pass: under info.write(), timeout += get_timeout(); the
\* while loop decrements once before the guard is dropped. `from` is the
\* retry loop the call returns to.
SleepEnter(t, from) ==
    /\ timeout' = timeout + TimeoutSecs - 1
    /\ loc' = [loc EXCEPT ![t].decs = 1, ![t].sleepRet = from]
    /\ Goto(t, "sl_wait")

\* sleep()'s loop condition, evaluated under info.write().
SleepGoesOnAboveOne(tm) == tm > 1

SleepGoesOn(tm) == tm > 0

\* sleep(), later passes: after thread::sleep(1 s) the lock is taken again
\* and the loop condition is evaluated: one more decrement, or the call
\* returns to the retry loop that made it.
SlWake(t) ==
    /\ pc[t] = "sl_wait"
    /\ IF SleepGoesOn(timeout)
       THEN /\ timeout' = timeout - 1
            /\ loc' = [loc EXCEPT ![t].decs = CountUp(@)]
            /\ Goto(t, "sl_wait")
       ELSE /\ Goto(t, loc[t].sleepRet)
            /\ loc' = [loc EXCEPT ![t].decs = 0, ![t].sleepRet = "none"]
            /\ UNCHANGED timeout
    /\ UNCHANGED <<poolVars, pktVars, actVars, lockVars, miscVars, flagVars, token, login_method, oauth_links, server_data,
                   hostVars, oauthReturned>>

\* --------------------------------------------------------------- reconnect

\* reconnect returns r: to process_events on the primary thread, to relog
\* (which drops the value) on the controlling thread.
RcReturn(t, r) ==
    IF t = "main"
    THEN /\ loc' = [loc EXCEPT ![t] = [NoLoc EXCEPT !.ret = r]]
         /\ Goto(t, "pe_ret")
    ELSE /\ loc' = [loc EXCEPT ![t] = NoLoc]
         /\ Goto(t, "idle")

\* to_http: the discovery request fails (transport error or non-200):
\* self.sleep(), then the loop asks again.
ToHttpFail(t) ==
    /\ pc[t] = "th_req"
    /\ SleepEnter(t, "th_req")
    /\ UNCHANGED <<poolVars, pktVars, actVars, lockVars, miscVars, flagVars, token, login_method, oauth_links, server_data,
                   hostVars, oauthReturned>>

\* to_http: a 200 reply; parse_server_data replaces info.server_data.
ToHttpOk(t) ==
    /\ pc[t] = "th_req"
    /\ \E body \in DiscoveryBodies : server_data' = body
    /\ Goto(t, "rc_snap")
    /\ UNCHANGED <<poolVars, pktVars, actVars, lockVars, miscVars, flagVars, token, login_method, oauth_links, timeout,
                   hostVars, loc, oauthReturned>>

\* `login_method != ELoginMethod::STEAM && oauth_links_empty`
NeedOauthLinksAlways(method, empty) == method # "STEAM"

NeedOauthLinks(method, empty) == method # "STEAM" /\ empty

\* reconnect reads (meta, login_method, oauth_links.is_empty()) under
\* info.read() and calls get_oauth_links.
RcInvokeOauth(t) ==
    /\ pc[t] = "rc_snap"
    /\ NeedOauthLinks(login_method, oauth_links = <<>>)
    /\ Goto(t, "ol_req")
    /\ UNCHANGED <<poolVars, pktVars, actVars, lockVars, miscVars, flagVars, infoVars, hostVars, loc, oauthReturned>>

\* reconnect reads the same and goes on to get_token without the call.
RcSkipOauth(t) ==
    /\ pc[t] = "rc_snap"
    /\ ~NeedOauthLinks(login_method, oauth_links = <<>>)
    /\ Goto(t, "tsv_start")
    /\ UNCHANGED <<poolVars, pktVars, actVars, lockVars, miscVars, flagVars, infoVars, hostVars, loc, oauthReturned>>

\* get_oauth_links: transport error or non-200: self.sleep(), ask again.
OlFail(t) ==
    /\ pc[t] = "ol_req"
    /\ SleepEnter(t, "ol_req")
    /\ UNCHANGED <<poolVars, pktVars, actVars, lockVars, miscVars, flagVars, token, login_method, oauth_links, server_data,
                   hostVars, oauthReturned>>

\* get_oauth_links: a 200 reply whose body cannot be read (`into_string()?`):
\* Err; reconnect logs it and returns false.
OlBodyErr(t) ==
    /\ pc[t] = "ol_req"
    /\ RcReturn(t, "false")
    /\ UNCHANGED <<poolVars, pktVars, actVars, lockVars, miscVars, flagVars, infoVars, hostVars, oauthReturned>>

\* get_oauth_links: a 200 reply; the pattern's matches are returned, an empty
\* list when nothing matches.
OlOk(t) ==
    /\ pc[t] = "ol_req"
    /\ \E ls \in {<<>>, ThreeLinks} : loc' = [loc EXCEPT ![t].links = ls]
    /\ oauthReturned' = TRUE
    /\ Goto(t, "ol_store")
    /\ UNCHANGED <<poolVars, pktVars, actVars, lockVars, miscVars, flagVars, infoVars, hostVars>>

\* reconnect: info.oauth_links = links.
OlStore(t) ==
    /\ pc[t] = "ol_store"
    /\ oauth_links' = loc[t].links
    /\ loc' = [loc EXCEPT ![t].links = <<>>]
    /\ Goto(t, "tsv_start")
    /\ UNCHANGED <<poolVars, pktVars, actVars, lockVars, miscVars, flagVars, token, login_method, server_data, timeout,
                   hostVars, oauthReturned>>

\* ------------------------------------------------------- token_still_valid

\* Bodies of a 200 JSON reply of the checktoken endpoint: status and token
\* (token "" when the key is absent: as_str().unwrap_or_default()).
RefreshBodies ==
    {[status |-> "success", token |-> k] : k \in {"", "tokB"}}
        \cup {[status |-> "failed", token |-> ""]}

\* `if info.token.is_empty() { return false; }`
TokenMissing(tok) == tok = ""

\* token_still_valid entry (get_token's first statement): false at once
\* without a token (get_token goes on to the login path), else the request
\* loop starts.
TsvStart(t) ==
    /\ pc[t] = "tsv_start"
    /\ Goto(t, IF TokenMissing(token) THEN "gt_login" ELSE "tsv_req")
    /\ UNCHANGED <<poolVars, pktVars, actVars, lockVars, miscVars, flagVars, infoVars, hostVars, loc, oauthReturned>>

\* The refresh request fails (transport error or status != 200): log,
\* thread::sleep(1 s), continue.
TsvFail(t) ==
    /\ pc[t] = "tsv_req"
    /\ Goto(t, "tsv_pause")
    /\ UNCHANGED <<poolVars, pktVars, actVars, lockVars, miscVars, flagVars, infoVars, hostVars, loc, oauthReturned>>

\* The 1 s pause is over: the loop sends the request again.
TsvRetry(t) ==
    /\ pc[t] = "tsv_pause"
    /\ Goto(t, "tsv_req")
    /\ UNCHANGED <<poolVars, pktVars, actVars, lockVars, miscVars, flagVars, infoVars, hostVars, loc, oauthReturned>>

\* A 200 reply that is not JSON: serde_json::from_str(..).unwrap() panics.
TsvBadJson(t) ==
    /\ pc[t] = "tsv_req"
    /\ Goto(t, "panicked")
    /\ UNCHANGED <<poolVars, pktVars, actVars, lockVars, miscVars, flagVars, infoVars, hostVars, loc, oauthReturned>>

\* `json_response["status"] == "success"`
RefreshAccepted(body) == body.status = "success"

\* A 200 JSON reply: on success the new token is stored next; otherwise
\* token_still_valid returns false and get_token goes on to the login path.
TsvReply(t) ==
    /\ pc[t] = "tsv_req"
    /\ \E body \in RefreshBodies :
          IF RefreshAccepted(body)
          THEN /\ loc' = [loc EXCEPT ![t].reply = body]
               /\ Goto(t, "tsv_store")
          ELSE /\ loc' = [loc EXCEPT ![t].reply = body]
               /\ Goto(t, "gt_login")
    /\ UNCHANGED <<poolVars, pktVars, actVars, lockVars, miscVars, flagVars, infoVars, hostVars, oauthReturned>>

\* What token_still_valid leaves in info.token on success.
RefreshedTokenKept(old, new) == old

RefreshedToken(old, new) == new

\* `info.token = new_token; return true;` and get_token's `return;`.
TsvStore(t) ==
    /\ pc[t] = "tsv_store"
    /\ token' = RefreshedToken(token, loc[t].reply.token)
    /\ loc' = [loc EXCEPT ![t].reply = NoReply, ![t].tokOut = "ok"]
    /\ Goto(t, "rc_check")
    /\ UNCHANGED <<poolVars, pktVars, actVars, lockVars, miscVars, flagVars, login_method, oauth_links, server_data, timeout,
                   hostVars, oauthReturned>>

\* --------------------------------------------------------------- get_token

\* The login methods with a token path of their own.
HasLoginPath(method) == method \in {"GOOGLE", "LEGACY", "STEAM"}

\* The method's token function returns Err: log_error, `return;`.
GtLoginErr(t) ==
    /\ pc[t] = "gt_login"
    /\ HasLoginPath(login_method)
    /\ loc' = [loc EXCEPT ![t].tokOut = "failed", ![t].reply = NoReply]
    /\ Goto(t, "rc_check")
    /\ UNCHANGED <<poolVars, pktVars, actVars, lockVars, miscVars, flagVars, infoVars, hostVars, oauthReturned>>

\* `_ => { log_warn("Invalid login method"); return; }`
GtInvalid(t) ==
    /\ pc[t] = "gt_login"
    /\ ~HasLoginPath(login_method)
    /\ loc' = [loc EXCEPT ![t].tokOut = "invalid", ![t].reply = NoReply]
    /\ Goto(t, "rc_check")
    /\ UNCHANGED <<poolVars, pktVars, actVars, lockVars, miscVars, flagVars, infoVars, hostVars, oauthReturned>>

\* The method's token function returns Ok(res); a non-empty res is stored.
GtLoginOk(t) ==
    /\ pc[t] = "gt_login"
    /\ HasLoginPath(login_method)
    /\ \E res \in {"", "tokA"} :
          IF res # ""
          THEN /\ loc' = [loc EXCEPT ![t].resp = res, ![t].reply = NoReply]
               /\ Goto(t, "gt_store")
          ELSE /\ loc' = [loc EXCEPT ![t].tokOut = "ok", ![t].reply = NoReply]
               /\ Goto(t, "rc_check")
    /\ UNCHANGED <<poolVars, pktVars, actVars, lockVars, miscVars, flagVars, infoVars, hostVars, oauthReturned>>

\* `info.token = token_result;`
GtStore(t) ==
    /\ pc[t] = "gt_store"
    /\ token' = loc[t].resp
    /\ loc' = [loc EXCEPT ![t].tokOut = "ok", ![t].resp = "none"]
    /\ Goto(t, "rc_check")
    /\ UNCHANGED <<poolVars, pktVars, actVars, lockVars, miscVars, flagVars, login_method, oauth_links, server_data, timeout,
                   hostVars, oauthReturned>>


\* ----------------------------------------- reconnect: checkpoint and connect

\* `if !state.is_running { return false; }`
CheckpointPassesAlways(running) == TRUE

CheckpointPasses(running) == running

\* reconnect's checkpoint after get_token returned (however it ended).
RcCheck(t) ==
    /\ pc[t] = "rc_check"
    /\ IF CheckpointPasses(is_running)
       THEN /\ Goto(t, "rc_addr")
            /\ UNCHANGED loc
       ELSE RcReturn(t, "false")
    /\ UNCHANGED <<poolVars, pktVars, actVars, lockVars, miscVars, flagVars, infoVars, hostVars, oauthReturned>>

\* SocketAddr::from_str(&format!("{}:{}", ip, port)) succeeds.
AddrParses(tgt) == tgt.ip # "" /\ tgt.port # ""

\* reconnect reads (server, port) from info.server_data ("" for an absent
\* key); connect_to_server parses the address, and unwrap() panics when it
\* does not parse.
RcAddr(t) ==
    /\ pc[t] = "rc_addr"
    /\ LET tgt == [ip |-> server_data.server, port |-> server_data.port]
       IN IF AddrParses(tgt)
          THEN /\ loc' = [loc EXCEPT ![t].tgt = tgt]
               /\ Goto(t, "rc_conn")
          ELSE /\ Goto(t, "panicked")
               /\ UNCHANGED loc
    /\ UNCHANGED <<poolVars, pktVars, actVars, lockVars, miscVars, flagVars, infoVars, hostVars, oauthReturned>>

\* host.connect(addr, 2, 0): with peer_limit 1 the call fails (logged)
\* unless the single peer is free.
HostConnectNever(p) == p

HostConnect(p) == IF p = "free" THEN "connecting" ELSE p

\* connect_to_server called by reconnect: host.lock(), host.connect; then
\* reconnect returns true.
RcConnect(t) ==
    /\ pc[t] = "rc_conn"
    /\ hostLock = "free"
    /\ peer' = HostConnect(peer)
    /\ RcReturn(t, "true")
    /\ UNCHANGED <<poolVars, pktVars, actVars, lockVars, miscVars, flagVars, infoVars, peer_id, hostLock, oauthReturned>>

\* ------------------------------------------------------------------- logon

\* logon: state.is_running = true; poll() spawns the passive-behaviour
\* thread; process_events() runs on the calling thread.
Logon ==
    /\ pc["main"] = "logon"
    /\ is_running' = TRUE
    /\ pc' = [pc EXCEPT !["main"] = "pe_top", !["poll"] = "poll_check"]
    /\ UNCHANGED <<poolVars, pktVars, actVars, lockVars, miscVars, is_redirecting, server, infoVars, hostVars, loc, oauthReturned>>

\* ---------------------------------------------------------- process_events

\* `if is_redirecting { connect_to_server } else { reconnect }`
TakesRedirectNever(redirecting) == FALSE

TakesRedirect(redirecting) == redirecting

\* Top of the outer loop: read (is_running, is_redirecting, ip, port);
\* break when not running; when redirecting, connect_to_server(ip, port)
\* (which panics on an address that does not parse); else reconnect().
PeTop ==
    /\ pc["main"] = "pe_top"
    /\ IF ~is_running
       THEN /\ Goto("main", "done")
            /\ UNCHANGED loc
       ELSE IF TakesRedirect(is_redirecting)
       THEN IF AddrParses(server)
            THEN /\ loc' = [loc EXCEPT !["main"].tgt = server]
                 /\ Goto("main", "pe_conn")
            ELSE /\ Goto("main", "panicked")
                 /\ UNCHANGED loc
       ELSE /\ Goto("main", "th_req")
            /\ UNCHANGED loc
    /\ UNCHANGED <<poolVars, pktVars, actVars, lockVars, miscVars, flagVars, infoVars, hostVars, oauthReturned>>

\* connect_to_server in the redirect branch: host.lock(), host.connect.
PeConnect ==
    /\ pc["main"] = "pe_conn"
    /\ hostLock = "free"
    /\ peer' = HostConnect(peer)
    /\ loc' = [loc EXCEPT !["main"].tgt = NoServer]
    /\ Goto("main", "svc_poll")
    /\ UNCHANGED <<poolVars, pktVars, actVars, lockVars, miscVars, flagVars, infoVars, peer_id, hostLock, oauthReturned>>

\* `if !self.reconnect() { return; }`
GoesOnAfterAny(ret) == TRUE

GoesOnAfter(ret) == ret = "true"

\* process_events after reconnect returned: the service loop, or return.
PeRet ==
    /\ pc["main"] = "pe_ret"
    /\ Goto("main", IF GoesOnAfter(loc["main"].ret) THEN "svc_poll" ELSE "done")
    /\ loc' = [loc EXCEPT !["main"].ret = "none"]
    /\ UNCHANGED <<poolVars, pktVars, actVars, lockVars, miscVars, flagVars, infoVars, hostVars, oauthReturned>>

\* ------------------------------------------ process_events: the service loop

\* Kinds of Receive events: a payload shorter than the 4-byte tag, a
\* call-function packet that redirects to another server (variant handler),
\* and any other message.
ReceiveKinds == {"short", "redirect", "other"}

\* `let mut host = self.host.lock().unwrap();` (blocks while the mutex is held)
SvcLock ==
    /\ pc["main"] = "svc_poll"
    /\ hostLock = "free"
    /\ hostLock' = "main"
    /\ Goto("main", "svc_in")
    /\ UNCHANGED <<poolVars, pktVars, actVars, lockVars, miscVars, flagVars, infoVars, peer_id, peer, loc, oauthReturned>>

\* host.service() returns the event ev and leaves the peer in state p; the
\* guard is dropped at the end of the block.
Serviced(ev, p) ==
    /\ pc["main"] = "svc_in"
    /\ hostLock = "main"
    /\ hostLock' = "free"
    /\ peer' = p
    /\ loc' = [loc EXCEPT !["main"].ev = ev]
    /\ Goto("main", "svc_handle")
    /\ UNCHANGED <<poolVars, pktVars, actVars, lockVars, miscVars, flagVars, infoVars, peer_id, oauthReturned>>

\* No event is pending.
SvcNone == Serviced("none", peer)

\* The connection handshake completed.
SvcConnect == peer = "connecting" /\ Serviced("Connect", "connected")

\* The peer disconnected, timed out, or acknowledged our disconnect.
SvcDisconnect == peer # "free" /\ Serviced("Disconnect", "free")

\* A packet arrived on the connected peer.
SvcReceive == peer = "connected" /\ \E k \in ReceiveKinds : Serviced(k, peer)

\* `if let Some(event) = event` fails: straight to the 10 ms sleep.
HandleNone ==
    /\ pc["main"] = "svc_handle"
    /\ loc["main"].ev = "none"
    /\ Goto("main", "svc_sleep")
    /\ UNCHANGED <<poolVars, pktVars, actVars, lockVars, miscVars, flagVars, infoVars, hostVars, loc, oauthReturned>>

\* Connect { peer, .. }: log, set_status, *peer_id = Some(peer).
HandleConnect ==
    /\ pc["main"] = "svc_handle"
    /\ loc["main"].ev = "Connect"
    /\ peer_id' = "Some"
    /\ loc' = [loc EXCEPT !["main"].ev = "none"]
    /\ Goto("main", "svc_sleep")
    /\ UNCHANGED <<poolVars, pktVars, actVars, lockVars, miscVars, flagVars, infoVars, peer, hostLock, oauthReturned>>

\* Disconnect { .. }: log, set_status("Disconnected"), break; peer_id is
\* not written.
HandleDisconnect ==
    /\ pc["main"] = "svc_handle"
    /\ loc["main"].ev = "Disconnect"
    /\ loc' = [loc EXCEPT !["main"].ev = "none"]
    /\ Goto("main", "pe_top")
    /\ UNCHANGED <<poolVars, pktVars, actVars, lockVars, miscVars, flagVars, infoVars, hostVars, oauthReturned>>

\* Receive with data.len() < 4: `continue`, which skips the 10 ms sleep.
HandleShort ==
    /\ pc["main"] = "svc_handle"
    /\ loc["main"].ev = "short"
    /\ loc' = [loc EXCEPT !["main"].ev = "none"]
    /\ Goto("main", "svc_poll")
    /\ UNCHANGED <<poolVars, pktVars, actVars, lockVars, miscVars, flagVars, infoVars, hostVars, oauthReturned>>

\* Receive handed to packet_handler::handle; a message that changes none of
\* the session state modelled here.
HandlePacket ==
    /\ pc["main"] = "svc_handle"
    /\ loc["main"].ev = "other"
    /\ loc' = [loc EXCEPT !["main"].ev = "none"]
    /\ Goto("main", "svc_sleep")
    /\ UNCHANGED <<poolVars, pktVars, actVars, lockVars, miscVars, flagVars, infoVars, hostVars, oauthReturned>>

\* Receive of the call-function packet that names another server: the
\* variant handler records the target and sets is_redirecting.
HandleRedirect ==
    /\ pc["main"] = "svc_handle"
    /\ loc["main"].ev = "redirect"
    /\ is_redirecting' = TRUE
    /\ server' = RedirectServer
    /\ loc' = [loc EXCEPT !["main"].ev = "none"]
    /\ Goto("main", "svc_sleep")
    /\ UNCHANGED <<poolVars, pktVars, actVars, lockVars, miscVars, is_running, infoVars, hostVars, oauthReturned>>

\* thread::sleep(10 ms), then the next iteration of the inner loop.
SvcSleep ==
    /\ pc["main"] = "svc_sleep"
    /\ Goto("main", "svc_poll")
    /\ UNCHANGED <<poolVars, pktVars, actVars, lockVars, miscVars, flagVars, infoVars, hostVars, loc, oauthReturned>>

\* ------------------------------------------------------ relog and disconnect

\* relog: state.is_running = false; state.is_redirecting = false.
RelogFlagsRunning == [is_running |-> TRUE, is_redirecting |-> FALSE]

RelogFlags == [is_running |-> FALSE, is_redirecting |-> FALSE]

RelogStart ==
    /\ pc["ctl"] = "idle"
    /\ is_running' = RelogFlags.is_running
    /\ is_redirecting' = RelogFlags.is_redirecting
    /\ Goto("ctl", "rl_disc")
    /\ UNCHANGED <<poolVars, pktVars, actVars, lockVars, miscVars, server, infoVars, hostVars, loc, oauthReturned>>

\* peer.disconnect(0) on the host's peer: a connected peer starts the
\* disconnect handshake, a connecting peer is reset without an event.
PeerDisconnect(p) ==
    IF p = "connected" THEN "disconnecting"
    ELSE IF p = "connecting" THEN "free"
    ELSE p

\* disconnect(): with a peer handle and the host mutex free (try_lock),
\* peer.disconnect(0); otherwise nothing. relog then calls reconnect.
RelogDisconnectReleasing ==
    /\ pc["ctl"] = "rl_disc"
    /\ peer' = IF peer_id = "Some" /\ hostLock = "free" THEN PeerDisconnect(peer) ELSE peer
    /\ proxies' = [i \in 1..NumProxies |-> SelectSeq(proxies[i], LAMBDA b : b # 1)]
    /\ Goto("ctl", "th_req")
    /\ UNCHANGED <<pmLock, ctor, ctorIdx, useProxy, socket, pktVars, actVars, lockVars, miscVars, flagVars, infoVars, peer_id, hostLock, loc, oauthReturned>>

RelogDisconnect ==
    /\ pc["ctl"] = "rl_disc"
    /\ peer' = IF peer_id = "Some" /\ hostLock = "free" THEN PeerDisconnect(peer) ELSE peer
    /\ Goto("ctl", "th_req")
    /\ UNCHANGED <<poolVars, pktVars, actVars, lockVars, miscVars, flagVars, infoVars, peer_id, hostLock, loc, oauthReturned>>

\* -------------------------------------------------------------------- poll

\* The test at the top of the passive-behaviour loop: `if !state.is_running
\* { break; }`.
PollGoesOnAlways(running) == TRUE

PollGoesOn(running) == running

\* Top of the passive-behaviour loop: break when is_running is false.
PollCheck ==
    /\ pc["poll"] = "poll_check"
    /\ Goto("poll", IF PollGoesOn(is_running) THEN "poll_work" ELSE "done")
    /\ UNCHANGED <<poolVars, pktVars, actVars, lockVars, miscVars, flagVars, infoVars, hostVars, loc, oauthReturned>>

\* collect(), set_ping() (neither changes the session state modelled here)
\* and thread::sleep(100 ms), then the next iteration.
PollWork ==
    /\ pc["poll"] = "poll_work"
    /\ Goto("poll", "poll_check")
    /\ UNCHANGED <<poolVars, pktVars, actVars, lockVars, miscVars, flagVars, infoVars, hostVars, loc, oauthReturned>>

\* ------------------------------------------------------------ specifications

\* The steps of reconnect (with to_http, get_oauth_links, get_token,
\* token_still_valid, sleep and connect_to_server) run by thread t.
ReconnectStep(t) ==
    \/ ToHttpFail(t) \/ ToHttpOk(t) \/ RcInvokeOauth(t) \/ RcSkipOauth(t)
    \/ OlFail(t) \/ OlBodyErr(t) \/ OlOk(t) \/ OlStore(t) \/ SlWake(t)
    \/ TsvStart(t) \/ TsvFail(t) \/ TsvRetry(t) \/ TsvBadJson(t) \/ TsvReply(t) \/ TsvStore(t)
    \/ GtLoginErr(t) \/ GtInvalid(t) \/ GtLoginOk(t) \/ GtStore(t)
    \/ RcCheck(t) \/ RcAddr(t) \/ RcConnect(t)

\* The primary engine thread.
MainStep ==
    \/ Logon \/ PeTop \/ PeConnect \/ PeRet \/ ReconnectStep("main")
    \/ SvcLock \/ SvcNone \/ SvcConnect \/ SvcDisconnect \/ SvcReceive
    \/ HandleNone \/ HandleConnect \/ HandleDisconnect \/ HandleShort
    \/ HandlePacket \/ HandleRedirect \/ SvcSleep

\* The passive-behaviour thread.
PollStep == PollCheck \/ PollWork

\* A relog call once it has started.
RelogStep == RelogDisconnect \/ ReconnectStep("ctl")

Next ==
    \/ Logon \/ PeTop \/ PeConnect \/ PeRet
    \/ \E t \in Runners : ToHttpFail(t)
    \/ \E t \in Runners : ToHttpOk(t)
    \/ \E t \in Runners : RcInvokeOauth(t)
    \/ \E t \in Runners : RcSkipOauth(t)
    \/ \E t \in Runners : OlFail(t)
    \/ \E t \in Runners : OlBodyErr(t)
    \/ \E t \in Runners : OlOk(t)
    \/ \E t \in Runners : OlStore(t)
    \/ \E t \in Runners : SlWake(t)
    \/ \E t \in Runners : TsvStart(t)
    \/ \E t \in Runners : TsvFail(t)
    \/ \E t \in Runners : TsvRetry(t)
    \/ \E t \in Runners : TsvBadJson(t)
    \/ \E t \in Runners : TsvReply(t)
    \/ \E t \in Runners : TsvStore(t)
    \/ \E t \in Runners : GtLoginErr(t)
    \/ \E t \in Runners : GtInvalid(t)
    \/ \E t \in Runners : GtLoginOk(t)
    \/ \E t \in Runners : GtStore(t)
    \/ \E t \in Runners : RcCheck(t)
    \/ \E t \in Runners : RcAddr(t)
    \/ \E t \in Runners : RcConnect(t)
    \/ SvcLock \/ SvcNone \/ SvcConnect \/ SvcDisconnect \/ SvcReceive
    \/ HandleNone \/ HandleConnect \/ HandleDisconnect \/ HandleShort
    \/ HandlePacket \/ HandleRedirect \/ SvcSleep
    \/ RelogStart \/ RelogDisconnect
    \/ PollCheck \/ PollWork

\* One bot: the primary thread, the passive thread and relog calls.
Spec == Init /\ [][Next]_vars

\* The same, with every started thread scheduled: a thread that can take a
\* step eventually takes one. Network events and new relog calls are not
\* forced.
FairSpec ==
    /\ Spec
    /\ WF_vars(MainStep)
    /\ WF_vars(PollStep)
    /\ WF_vars(RelogStep)

\* Bot::new calls sharing one proxy pool.
SpecNew == InitNew /\ [][NextPool]_vars


\* ---------------------------------------------------------- the packet layer

\* Largest declared extended_data_length of the packets tried.
MaxExt == 2
\* Largest number of bytes that follow the fixed header in the buffers tried.
MaxTrail == 2

\* process_events: `if data.len() < 4`, `data[0..4]`, `&data[4..]`.
TagSize == 4
\* packet_handler::handle: `&data[56..]`; size_of::<TankPacket>().
HeaderSize == 56
\* EPacketType discriminants (`packet_type as u32`).
NetMessageServerHello == 1
NetMessageGenericText == 2
NetMessageGameMessage == 3
NetMessageGamePacket == 4
\* ETankPacketType: 40 variants, discriminants 0..39 (#[repr(u8)]).
NetGamePacketState == 0
NetGamePacketCallFunction == 1
NetGamePacketItemActivateRequest == 10
LastTankPacketType == 39

\* impl From<u8> for ETankPacketType: 0..39 map to the variant with that
\* discriminant, every other byte (`_`) to NetGamePacketState.
FromU8Loose(value) ==
    IF value \in 0..LastTankPacketType THEN value ELSE NetGamePacketCallFunction

FromU8(value) ==
    IF value \in 0..LastTankPacketType THEN value ELSE NetGamePacketState

\* u32::to_le_bytes and LittleEndian::read_u32.
LE32(n) ==
    <<n % 256, (n \div 256) % 256, (n \div 65536) % 256, (n \div 16777216) % 256>>
FromLE32(b) == b[1] + 256 * b[2] + 65536 * b[3] + 16777216 * b[4]

Zeros(n) == [i \in 1..n |-> 0]

\* The fixed header on the wire: the action-kind byte, 51 bytes of other
\* fields, and the u32 extended_data_length.
MidSize == HeaderSize - 5
Header(typeByte, mid, ext) == <<typeByte>> \o mid \o LE32(ext)

\* bincode::deserialize::<TankPacket>: Err on fewer bytes than the fixed
\* header; otherwise the header fields, bytes after the header ignored.
Deserialize(data) ==
    IF Len(data) < HeaderSize
    THEN [ok |-> FALSE, pkt |-> NoPkt]
    ELSE [ok |-> TRUE,
          pkt |-> [type |-> FromU8(data[1]),
                   mid  |-> SubSeq(data, 2, HeaderSize - 4),
                   ext  |-> FromLE32(SubSeq(data, HeaderSize - 3, HeaderSize))]]

\* bincode::serialize(packet): the fixed header.
Serialize(pkt) == Header(pkt.type, pkt.mid, pkt.ext)

\* One `key|value\n` piece of a format! string.
Line(key, value) == <<key, "|", value, "\n">>

RECURSIVE Lines(_, _)
Lines(keys, values) ==
    IF keys = <<>> THEN <<>>
    ELSE Line(Head(keys), Head(values)) \o Lines(Tail(keys), Tail(values))

\* The keys and the login_info fields of the first format! of the
\* server-hello arm, in its order.
HandshakeKeys ==
    <<"UUIDToken", "protocol", "fhash", "mac", "requestedName", "hash2", "fz",
      "f", "player_age", "game_version", "lmode", "cbits", "rid", "GDPR",
      "hash", "category", "token", "total_playtime", "door_id", "klv", "meta",
      "platformID", "deviceVersion", "zf", "country", "user", "wk">>
HandshakeFields ==
    <<"uuid", "protocol", "fhash", "mac", "requested_name", "hash2", "fz",
      "f", "player_age", "game_version", "lmode", "cbits", "rid", "gdpr",
      "hash", "category", "token", "total_playtime", "door_id", "klv", "meta",
      "platform_id", "device_version", "zf", "country", "user", "wk">>

\* is_redirecting: every listed login_info field.
FullMessage == Lines(HandshakeKeys, HandshakeFields)

\* otherwise: protocol 209, the bearer token, platformID "0,1,1".
LightMessageNoToken(tok) == Line("protocol", "209") \o Line("platformID", "0,1,1")

LightMessage(tok) ==
    Line("protocol", "209") \o Line("ltoken", tok) \o Line("platformID", "0,1,1")

\* The message of the server-hello arm.
HelloMessageSwapped(redirecting, tok) ==
    IF redirecting THEN LightMessage(tok) ELSE FullMessage

HelloMessage(redirecting, tok) ==
    IF redirecting THEN FullMessage ELSE LightMessage(tok)

\* What packet_handler::handle does with a message of kind `kind` and
\* payload `data` (the bytes after the tag): the text messages it passes to
\* send_packet, the error! lines, the payloads it passes to
\* variant_handler::handle, and whether it panics.
Handled(handed, errs, disp, panic) ==
    [handed |-> handed, errs |-> errs, disp |-> disp, panic |-> panic]

\* NetMessageGamePacket arm. The Err arm formats data[0]: indexing an empty
\* payload panics.
HandleGamePacket(data) ==
    LET r == Deserialize(data) IN
    IF r.ok
    THEN IF r.pkt.type = NetGamePacketCallFunction
         THEN Handled(<<>>, 0, <<SubSeq(data, HeaderSize + 1, Len(data))>>, FALSE)
         ELSE Handled(<<>>, 0, <<>>, FALSE)
    ELSE IF Len(data) = 0
         THEN Handled(<<>>, 0, <<>>, TRUE)
         ELSE Handled(<<>>, 1, <<>>, FALSE)

Handle(kind, data, redirecting, tok) ==
    IF kind = NetMessageServerHello
    THEN Handled(<<[kind |-> NetMessageGenericText,
                    text |-> HelloMessage(redirecting, tok)]>>, 0, <<>>, FALSE)
    ELSE IF kind = NetMessageGamePacket
    THEN HandleGamePacket(data)
    ELSE Handled(<<>>, 0, <<>>, FALSE)

\* `if let Some(peer_id) = *peer_id`
HasPeerAlways(pid) == TRUE

HasPeer(pid) == pid = "Some"

\* The end of send_packet and send_packet_raw: with a peer handle and the
\* host mutex free (try_lock), peer.send(0, &pkt); rusty_enet accepts the
\* packet on a connected peer and returns Err otherwise, which is logged.
Transmit(buf, pid, lock, p) ==
    IF HasPeer(pid) /\ lock = "free"
    THEN IF p = "connected"
         THEN [wire |-> <<buf>>, errs |-> 0]
         ELSE [wire |-> <<>>, errs |-> 1]
    ELSE [wire |-> <<>>, errs |-> 0]

\* send_packet's buffer: the kind as u32 little-endian, then the message.
TextBuffer(m) == [tag |-> LE32(m.kind), body |-> m.text]

\* send_packet_raw: size_of::<EPacketType>() + size_of::<TankPacket>() +
\* packet.extended_data_length.
RawSizeNoExt(ext) == TagSize + HeaderSize

RawSize(ext) == TagSize + HeaderSize + ext

\* send_packet_raw's buffer: vec![0u8; packet_size] with the game-packet
\* tag and the serialized header copied to its front.
BuildRaw(pkt) ==
    LET bytes == LE32(NetMessageGamePacket) \o Serialize(pkt) IN
    [i \in 1..RawSize(pkt.ext) |-> IF i <= Len(bytes) THEN bytes[i] ELSE 0]

RawBuffer(b) == [tag |-> SubSeq(b, 1, TagSize), body |-> SubSeq(b, TagSize + 1, Len(b))]

\* ---- the inputs tried

\* Action-kind bytes: recognised kinds (call-function among them), the first
\* unrecognised byte and the last byte value.
TypeBytes == {0, 1, 2, 39, 40, 255}
\* The 51 header bytes between the action kind and the length field.
MidSample == [i \in 1..MidSize |-> i]
\* The bytes that follow the fixed header.
TrailSeqs == {[i \in 1..n |-> 7] : n \in 0..MaxTrail} \cup {<<0>>}
\* Buffers of at least the fixed header, and every proper prefix of a header.
FullBuffers ==
    {Header(t, MidSample, e) \o tr : t \in TypeBytes, e \in 0..MaxExt, tr \in TrailSeqs}
ShortBuffers ==
    {SubSeq(Header(NetGamePacketCallFunction, MidSample, 0), 1, n) :
        n \in 0..(HeaderSize - 1)}
\* Payloads of Receive events: shorter than a tag, the four kinds the
\* handler names, an unnamed kind, and game packets.
Inbound ==
    {<<>>, <<NetMessageGamePacket, 0, 0>>,
     LE32(NetMessageServerHello), LE32(NetMessageGenericText),
     LE32(NetMessageGameMessage) \o <<104, 105>>, LE32(9)}
    \cup {LE32(NetMessageGamePacket) \o b : b \in FullBuffers \cup ShortBuffers}

\* TankPackets handed to send_packet_raw: TankPacket::default() with a type
\* (wear, walk, place), and packets with other fields and lengths set.
OutPackets ==
    {[type |-> t, mid |-> m, ext |-> e] :
        t \in {NetGamePacketState, NetGamePacketCallFunction, 2,
               NetGamePacketItemActivateRequest, LastTankPacketType},
        m \in {Zeros(MidSize), MidSample},
        e \in 0..MaxExt}

\* Text messages handed to send_packet: talk and leave.
OutTexts ==
    {[kind |-> NetMessageGenericText, text |-> <<"action|input\n|text|", "hi", "\n">>],
     [kind |-> NetMessageGameMessage, text |-> <<"action|quit_to_exit\n">>]}

\* ---- the connected sub-loop with its packets

\* host.service() returns a Receive event with payload `data`; the guard is
\* dropped and the Receive arm runs: a payload shorter than the tag is
\* skipped with `continue`; otherwise packet_handler::handle gets the kind
\* and the rest, and its messages go through send_packet.
PktReceive(data) ==
    /\ pc["main"] = "svc_in"
    /\ hostLock = "main"
    /\ peer = "connected"
    /\ hostLock' = "free"
    /\ IF Len(data) < TagSize
       THEN /\ last' = [NoOp EXCEPT !.op = "short", !.data = data]
            /\ Goto("main", "svc_poll")
       ELSE LET kind == FromLE32(SubSeq(data, 1, TagSize))
                h    == Handle(kind, SubSeq(data, TagSize + 1, Len(data)),
                               is_redirecting, token)
                tx   == IF h.handed = <<>> THEN [wire |-> <<>>, errs |-> 0]
                        ELSE Transmit(TextBuffer(h.handed[1]), peer_id, "free", peer)
            IN  /\ last' = [NoOp EXCEPT !.op = "handle", !.data = data,
                                        !.handed = h.handed, !.wire = tx.wire,
                                        !.errs = h.errs + tx.errs, !.disp = h.disp]
                /\ Goto("main", IF h.panic THEN "panicked" ELSE "svc_sleep")
    /\ UNCHANGED <<poolVars, actVars, lockVars, miscVars, flagVars, infoVars, peer_id, peer, loc, oauthReturned>>

\* ---- network actions called from another thread

\* send_packet(packet_type, message)
ActSendPacket(m) ==
    /\ pc["ctl"] = "idle"
    /\ LET tx == Transmit(TextBuffer(m), peer_id, hostLock, peer) IN
       last' = [NoOp EXCEPT !.op = "send_packet", !.handed = <<m>>,
                            !.wire = tx.wire, !.errs = tx.errs]
    /\ UNCHANGED <<poolVars, botVars, actVars, lockVars, miscVars>>

\* send_packet_raw(&packet)
ActSendRaw(pkt) ==
    /\ pc["ctl"] = "idle"
    /\ LET b  == BuildRaw(pkt)
           tx == Transmit(RawBuffer(b), peer_id, hostLock, peer)
       IN last' = [NoOp EXCEPT !.op = "send_packet_raw", !.pkt = pkt, !.built = b,
                               !.wire = tx.wire, !.errs = tx.errs]
    /\ UNCHANGED <<poolVars, botVars, actVars, lockVars, miscVars>>

\* disconnect()
ActDisconnect ==
    /\ pc["ctl"] = "idle"
    /\ peer' = IF HasPeer(peer_id) /\ hostLock = "free" THEN PeerDisconnect(peer) ELSE peer
    /\ last' = [NoOp EXCEPT !.op = "disconnect"]
    /\ UNCHANGED <<poolVars, actVars, lockVars, miscVars, flagVars, infoVars, peer_id, hostLock, pc, loc, oauthReturned>>

\* The engine in its connected sub-loop after a connection attempt: a first
\* logon (no peer handle yet), or the attempt that follows a redirect (the
\* handle of the earlier connection is still stored).
InitPkt ==
    /\ IdlePool
    /\ is_running = TRUE
    /\ is_redirecting \in BOOLEAN
    /\ server = IF is_redirecting THEN RedirectServer ELSE NoServer
    /\ token \in {"", "tokA"}
    /\ login_method = "LEGACY"
    /\ oauth_links = ThreeLinks
    /\ server_data = GoodServerData
    /\ timeout = 0
    /\ peer_id = IF is_redirecting THEN "Some" ELSE "None"
    /\ peer = "connecting"
    /\ hostLock = "free"
    /\ pc = [t \in Threads |-> IF t = "main" THEN "svc_poll"
                               ELSE IF t = "ctl" THEN "idle" ELSE "poll_check"]
    /\ loc = [t \in Threads |-> NoLoc]
    /\ oauthReturned = TRUE
    /\ last = NoOp
    /\ InitFields

NextPkt ==
    \/ SvcLock \/ SvcNone \/ SvcConnect
    \/ \E data \in Inbound : PktReceive(data)
    \/ HandleNone \/ HandleConnect \/ SvcSleep
    \/ \E m \in OutTexts : ActSendPacket(m)
    \/ \E pkt \in OutPackets : ActSendRaw(pkt)
    \/ ActDisconnect

\* The connected sub-loop, its handler and the network actions.
SpecPkt == InitPkt /\ [][NextPkt]_vars

\* ---------------------------------------------------------- the action surface

MaxDropped == 2        \* dropped objects in the world at once
MaxPath == 2           \* waypoints of one path

TileSize == 32
CollectRange == 5
StackCap == 200
PlaceRange == 4
FacingRightFlags == 2592
FacingLeftFlags == 2608
WalkFlags == 34
FistId == 18
WrenchId == 32
NetGamePacketTileChangeRequest == 3
NetGamePacketItemActivateObjectRequest == 11

Abs(n) == IF n < 0 THEN 0 - n ELSE n

\* TankPacket::default(), by the fields the actions set.
DefaultTank ==
    [type |-> NetGamePacketState, vector_x |-> 0, vector_y |-> 0,
     int_x |-> 0, int_y |-> 0, value |-> 0, flags |-> 0]

\* is_inworld()
IsInWorld(w) == w.name # "EXIT"

\* collect's distance test, sqrt((|bx - ox| / 32)^2 + (|by - oy| / 32)^2) <= 5.0,
\* on whole pixel coordinates, where it is exact: both sides squared and
\* multiplied by 32^2.
WithinRangeChebyshev(pos, obj) ==
    /\ Abs(pos.x - obj.x) <= CollectRange * TileSize
    /\ Abs(pos.y - obj.y) <= CollectRange * TileSize

WithinRange(pos, obj) ==
    Abs(pos.x - obj.x) * Abs(pos.x - obj.x) + Abs(pos.y - obj.y) * Abs(pos.y - obj.y)
        <= (CollectRange * TileSize) * (CollectRange * TileSize)

\* collect's can_collect for an object of item `id`.
CanCollect(inv, id) ==
    IF id \notin DOMAIN inv.items /\ inv.size > inv.item_count
    THEN TRUE
    ELSE IF id \in DOMAIN inv.items THEN inv.items[id] < StackCap ELSE FALSE

\* The request collect builds for one object.
CollectPkt(obj) ==
    [DefaultTank EXCEPT !.type = NetGamePacketItemActivateObjectRequest,
                        !.vector_x = obj.x, !.vector_y = obj.y, !.value = obj.uid]

\* The loop of collect over the cloned list of dropped objects: the
\* requests handed to send_packet_raw, in order.
RECURSIVE CollectLoop(_, _, _)
CollectLoop(items, pos, inv) ==
    IF items = <<>> THEN <<>>
    ELSE (IF WithinRange(pos, Head(items)) /\ CanCollect(inv, Head(items).id)
          THEN <<CollectPkt(Head(items))>> ELSE <<>>)
         \o CollectLoop(Tail(items), pos, inv)

\* collect()
Collect(w, pos, inv) == IF IsInWorld(w) THEN CollectLoop(w.dropped, pos, inv) ELSE <<>>

\* The tile a pixel coordinate lies in: (c / 32.0).floor() as i32.
TileOf(c) == c \div TileSize

\* place's range test on the target tile.
PlaceInRangeX(pos, offset_x, offset_y) ==
    /\ TileOf(pos.x) + offset_x <= TileOf(pos.x) + PlaceRange
    /\ TileOf(pos.x) + offset_x >= TileOf(pos.x) - PlaceRange

PlaceInRange(pos, offset_x, offset_y) ==
    /\ TileOf(pos.x) + offset_x <= TileOf(pos.x) + PlaceRange
    /\ TileOf(pos.x) + offset_x >= TileOf(pos.x) - PlaceRange
    /\ TileOf(pos.y) + offset_y <= TileOf(pos.y) + PlaceRange
    /\ TileOf(pos.y) + offset_y >= TileOf(pos.y) - PlaceRange

\* The tile-change request place builds.
PlacePkt(pos, offset_x, offset_y, item_id) ==
    [DefaultTank EXCEPT !.type = NetGamePacketTileChangeRequest,
                        !.vector_x = pos.x, !.vector_y = pos.y,
                        !.int_x = TileOf(pos.x) + offset_x,
                        !.int_y = TileOf(pos.y) + offset_y,
                        !.value = item_id]

\* The facing flags of the follow-up state packet.
FacingFlagsSwapped(offset_x) == IF offset_x > 0 THEN FacingLeftFlags ELSE FacingRightFlags

FacingFlags(offset_x) == IF offset_x > 0 THEN FacingRightFlags ELSE FacingLeftFlags

\* place(offset_x, offset_y, item_id): the packets handed to
\* send_packet_raw. The second is the first with its flags and type changed.
Place(pos, offset_x, offset_y, item_id) ==
    IF PlaceInRange(pos, offset_x, offset_y)
    THEN LET pkt == PlacePkt(pos, offset_x, offset_y, item_id) IN
         <<pkt, [pkt EXCEPT !.flags = FacingFlags(offset_x), !.type = NetGamePacketState]>>
    ELSE <<>>

\* get_coordinate_to_touch_ground
TouchGroundNoStep(y) == ((y + 30) \div TileSize) * TileSize - 30

TouchGround(y) == (((y + 30) \div TileSize) + 1) * TileSize - 30

\* walk: the position after the optional relative move.
WalkPosition(pos, x, y, ap) ==
    IF ap THEN pos ELSE [x |-> pos.x + x * TileSize, y |-> pos.y + y * TileSize]

\* walk: the state packet built from the position.
WalkPkt(pos) ==
    [DefaultTank EXCEPT !.type = NetGamePacketState,
                        !.vector_x = pos.x, !.vector_y = pos.y,
                        !.int_x = -1, !.int_y = -1, !.flags = WalkFlags]

\* walk: the packet is sent only `if is_running && self.is_inworld()`.
WalkSendsAlways(running, w) == TRUE

WalkSends(running, w) == running /\ IsInWorld(w)

\* ---- inputs of the actions

ItemX == 2
ItemY == 4

\* Dropped objects around the origin: at distance exactly 5 tiles (3-4-5),
\* one pixel beyond it, inside the 5-tile square but outside the circle,
\* and at the origin.
Catalogue ==
    << [uid |-> 1, id |-> ItemX, x |-> 96,  y |-> 128],
       [uid |-> 2, id |-> ItemX, x |-> 97,  y |-> 128],
       [uid |-> 3, id |-> ItemY, x |-> 128, y |-> 128],
       [uid |-> 4, id |-> ItemY, x |-> 0,   y |-> 0] >>

\* The objects numbered in S, in the order of the catalogue.
Listed(S) ==
    [i \in 1..Cardinality(S) |->
        Catalogue[CHOOSE e \in S : Cardinality({f \in S : f <= e}) = i]]

DroppedLists ==
    {Listed(S) : S \in {T \in SUBSET (1..Len(Catalogue)) : Cardinality(T) <= MaxDropped}}

Worlds ==
    {[name |-> "W", dropped |-> d] : d \in DroppedLists}
        \cup {[name |-> "EXIT", dropped |-> Listed({1, 4})]}

\* Inventories: room and no stack; full with a stack of X one below the
\* cap; room with a stack of X at the cap; full with a stack of Y only.
Inventories ==
    { [size |-> 1, item_count |-> 0, items |-> <<>>],
      [size |-> 1, item_count |-> 1, items |-> [i \in {ItemX} |-> StackCap - 1]],
      [size |-> 2, item_count |-> 1, items |-> [i \in {ItemX} |-> StackCap]],
      [size |-> 1, item_count |-> 1, items |-> [i \in {ItemY} |-> 1]] }

\* Offsets around the edge of the placement range.
Offsets == {0 - (PlaceRange + 1), 0 - PlaceRange, 0, 1, PlaceRange, PlaceRange + 1}

\* The row of tiles the bot moves on.
Row == 0..MaxPath

\* AStar::find_path on a free row: the tiles from the start towards the
\* goal, the start excluded and the goal included.
AStarPath(sx, sy, gx, gy) ==
    LET dx == Abs(gx - sx)
        dy == Abs(gy - sy)
    IN [i \in 1..(dx + dy) |->
           IF i <= dx
           THEN [x |-> IF gx > sx THEN sx + i ELSE sx - i, y |-> sy]
           ELSE [x |-> gx, y |-> IF gy > sy THEN sy + (i - dx) ELSE sy - (i - dx)]]

\* ---- the action calls

NoPlayback == act.path = <<>>

\* collect()
ActCollect ==
    /\ NoPlayback
    /\ LET raws == Collect(world, position, inventory) IN
       act' = [NoAct EXCEPT !.op = "collect", !.raws = raws, !.logs = Len(raws)]
    /\ UNCHANGED <<poolVars, botVars, pktVars, lockVars, miscVars, world, position, inventory>>

\* place(offset_x, offset_y, item_id)
ActPlace(offset_x, offset_y, item_id) ==
    /\ NoPlayback
    /\ act' = [NoAct EXCEPT !.op = "place", !.arg = <<offset_x, offset_y, item_id>>,
                            !.raws = Place(position, offset_x, offset_y, item_id)]
    /\ UNCHANGED <<poolVars, botVars, pktVars, lockVars, miscVars, world, position, inventory>>

\* punch(offset_x, offset_y)
ActPunch(offset_x, offset_y) ==
    /\ NoPlayback
    /\ act' = [NoAct EXCEPT !.op = "punch", !.arg = <<offset_x, offset_y, FistId>>,
                            !.raws = Place(position, offset_x, offset_y, FistId)]
    /\ UNCHANGED <<poolVars, botVars, pktVars, lockVars, miscVars, world, position, inventory>>

\* wrench(offset_x, offset_y)
ActWrench(offset_x, offset_y) ==
    /\ NoPlayback
    /\ act' = [NoAct EXCEPT !.op = "wrench", !.arg = <<offset_x, offset_y, WrenchId>>,
                            !.raws = Place(position, offset_x, offset_y, WrenchId)]
    /\ UNCHANGED <<poolVars, botVars, pktVars, lockVars, miscVars, world, position, inventory>>

\* walk(x, y, ap)
ActWalk(x, y, ap) ==
    /\ NoPlayback
    /\ LET p == WalkPosition(position, x, y, ap)
           sends == WalkSends(is_running, world)
       IN /\ TileOf(p.x) \in Row
          /\ position' = p
          /\ act' = [NoAct EXCEPT !.op = "walk", !.arg = <<x, y, ap>>,
                                  !.raws = IF sends THEN <<WalkPkt(p)>> ELSE <<>>,
                                  !.trace = IF sends THEN <<"packet">> ELSE <<>>]
    /\ UNCHANGED <<poolVars, botVars, pktVars, lockVars, miscVars, world, inventory>>

\* find_path(x, y) up to its loop: the position is read and the path found.
FindPathStart(gx, gy) ==
    /\ NoPlayback
    /\ LET paths == AStarPath(TileOf(position.x), TileOf(position.y), gx, gy) IN
       act' = [NoAct EXCEPT !.op = "find_path", !.arg = paths, !.path = paths]
    /\ UNCHANGED <<poolVars, botVars, pktVars, lockVars, miscVars, world, position, inventory>>

\* One pass of find_path's loop: the position is set on the waypoint,
\* walk(node.x, node.y, true) runs, and the thread sleeps for the delay.
FindPathStep ==
    /\ act.op = "find_path"
    /\ act.path # <<>>
    /\ LET node == Head(act.path)
           p == WalkPosition([x |-> node.x * TileSize, y |-> TouchGround(node.y * TileSize)],
                             node.x, node.y, TRUE)
           sends == WalkSends(is_running, world)
       IN /\ position' = p
          /\ act' = [act EXCEPT !.raws = @ \o (IF sends THEN <<WalkPkt(p)>> ELSE <<>>),
                                !.trace = @ \o (IF sends THEN <<"packet">> ELSE <<>>) \o <<"delay">>,
                                !.path = Tail(@)]
    /\ UNCHANGED <<poolVars, botVars, pktVars, lockVars, miscVars, world, inventory>>

\* A logged-on bot with a connected peer, in a world or not, and nobody
\* calling an action yet.
InitAct ==
    /\ IdlePool
    /\ InitMisc
    /\ is_running = TRUE
    /\ is_redirecting = FALSE
    /\ server = NoServer
    /\ token = "tokA"
    /\ login_method = "LEGACY"
    /\ oauth_links = ThreeLinks
    /\ server_data = GoodServerData
    /\ timeout = 0
    /\ peer_id = "Some"
    /\ peer = "connected"
    /\ hostLock = "free"
    /\ pc = [t \in Threads |-> IF t = "main" THEN "svc_poll"
                               ELSE IF t = "ctl" THEN "idle" ELSE "poll_check"]
    /\ loc = [t \in Threads |-> NoLoc]
    /\ oauthReturned = TRUE
    /\ last = NoOp
    /\ world \in Worlds
    /\ position = Origin
    /\ inventory \in Inventories
    /\ act = NoAct
    /\ lk = FreeLocks
    /\ at = [t \in Threads |-> Resting]
    /\ ping = 0

NextAct ==
    \/ ActCollect
    \/ \E ox \in Offsets, oy \in Offsets, id \in {ItemX} : ActPlace(ox, oy, id)
    \/ \E ox \in {1, PlaceRange + 1}, oy \in {0 - PlaceRange} : ActPunch(ox, oy)
    \/ \E ox \in {0 - PlaceRange}, oy \in {PlaceRange, PlaceRange + 1} : ActWrench(ox, oy)
    \/ \E x \in {0 - 1, 1}, ap \in BOOLEAN : ActWalk(x, 0, ap)
    \/ \E gx \in Row : FindPathStart(gx, 0)
    \/ FindPathStep
    \/ RelogStart
    \/ RelogDisconnect

\* The action calls on a logged-on bot, with a relog by another caller.
SpecAct == InitAct /\ [][NextAct]_vars

\* The rows of tiles a path may pass through.
MaxTileY == 2
Column == 0..MaxTileY

\* A logged-on bot standing at the origin, in a world with nothing dropped
\* or in none, its inventory empty.
InitPath ==
    /\ InitAct
    /\ inventory.item_count = 0
    /\ world.dropped \in {<<>>, Listed({1, 4})}

NextPath ==
    \/ \E gx \in Row, gy \in Column : FindPathStart(gx, gy)
    \/ FindPathStep

\* find_path calls one after the other, each played back to its end or
\* followed by the next.
SpecPath == InitPath /\ [][NextPath]_vars

\* ------------------------------------------------------- the per-field locks

\* What a thread does to the locks, one instruction at a time. `d` is a
\* relative jump: where a failed attempt or a branch not taken goes on.
Rd(l) == [k |-> "read", l |-> l, d |-> 0]
Wr(l) == [k |-> "write", l |-> l, d |-> 0]
\* Mutex::lock is exclusive, as a write.
Lk(l) == [k |-> "write", l |-> l, d |-> 0]
TryRd(l, d) == [k |-> "try_read", l |-> l, d |-> d]
TryWr(l, d) == [k |-> "try_write", l |-> l, d |-> d]
TryLk(l, d) == [k |-> "try_write", l |-> l, d |-> d]
\* A guard is dropped.
Un(l) == [k |-> "unlock", l |-> l, d |-> 0]
\* A test on data: go on, or jump by d.
Br(d) == [k |-> "branch", l |-> "", d |-> d]
\* info.ping = peer.round_trip_time()
Sample == [k |-> "sample", l |-> "", d |-> 0]

\* set_status
SetStatusScript == <<Wr("info"), Un("info")>>

\* One or more write sections on info in a row: set_status, the passes of
\* sleep, parse_server_data, update_login_info, a token being stored.
InfoWrites == <<Wr("info"), Un("info"), Br(0 - 2)>>

\* send_packet and send_packet_raw: peer_id.read(), and with a handle
\* host.try_lock() around peer.send.
SendScript ==
    <<Rd("peer_id"), Br(3), TryLk("host", 2), Un("host"), Un("peer_id")>>

\* disconnect: the read guard on peer_id lasts for the `let` only.
DisconnectScript ==
    <<Rd("peer_id"), Un("peer_id"), Br(3), TryLk("host", 2), Un("host")>>

\* connect_to_server
ConnectScript == SetStatusScript \o <<Lk("host"), Un("host")>>

\* set_ping: three attempts, nested; the guards are dropped innermost first.
SetPingScriptBlocking ==
    <<TryLk("host", 8), TryRd("peer_id", 6), Br(4), Wr("info"),
      Sample, Un("info"), Un("peer_id"), Un("host")>>

SetPingScript ==
    <<TryLk("host", 8), TryRd("peer_id", 6), Br(4), TryWr("info", 3),
      Sample, Un("info"), Un("peer_id"), Un("host")>>

\* collect: is_inworld, the position, the dropped objects, then per object
\* the inventory and the request.
CollectScript ==
    <<Rd("world"), Un("world"), Br(15),
      Rd("position"), Un("position"), Rd("world"), Un("world"),
      Br(10), Rd("inventory"), Un("inventory"), Br(6)>>
    \o SendScript \o <<Br(0 - 9)>>

\* place (and punch, wrench): the position, then two requests when in range.
PlaceScript ==
    <<Rd("position"), Un("position"), Br(11)>> \o SendScript \o SendScript

\* walk after its optional move: the packet is built under position.read();
\* the guard of state.read() lives through the whole condition, so
\* is_inworld takes world.read() under it.
WalkTail ==
    <<Rd("position"), Un("position"),
      Rd("state"), Br(3), Rd("world"), Un("world"), Un("state"), Br(6)>>
    \o SendScript

\* walk
WalkScript == <<Br(3), Wr("position"), Un("position")>> \o WalkTail

\* find_path: the position, then per waypoint position.write() and
\* walk(.., true). (astar is read only here and by no other thread.)
FindPathScript ==
    <<Rd("position"), Un("position"), Br(Len(WalkTail) + 4),
      Wr("position"), Un("position")>>
    \o WalkTail \o <<Br(0 - (Len(WalkTail) + 3))>>

\* reconnect up to its checkpoint, with to_http, sleep, parse_server_data,
\* get_oauth_links, token_still_valid and get_token: a run of sections on
\* info, each a read (the session data is copied out; get_oauth_links holds
\* its guard while the request is sent) or a write (set_status, a pass of
\* sleep, a value stored), none inside another and no other lock taken.
InfoSections ==
    <<Br(4), Rd("info"), Un("info"), Br(3), Wr("info"), Un("info"), Br(0 - 6)>>

\* reconnect from the checkpoint on.
ReconnectTail ==
    <<Rd("state"), Un("state"), Br(7), Rd("info"), Un("info")>> \o ConnectScript

\* reconnect; a failed get_oauth_links returns before the checkpoint.
ReconnectScript ==
    SetStatusScript \o InfoSections \o <<Br(Len(ReconnectTail) + 1)>> \o ReconnectTail

\* relog
RelogScriptHolding ==
    <<Wr("state")>> \o SetStatusScript \o DisconnectScript \o ReconnectScript
    \o <<Un("state")>>

RelogScript ==
    <<Wr("state"), Un("state")>> \o SetStatusScript \o DisconnectScript \o ReconnectScript

\* logon up to process_events.
LogonScript == SetStatusScript \o InfoWrites \o <<Wr("state"), Un("state")>>

\* packet_handler::handle on a server hello while redirecting: the state is
\* tested, then info is held while the message is built and sent.
HelloRedirectScript ==
    <<Wr("state"), Un("state"), Wr("info")>> \o SendScript \o <<Un("info")>>

\* ... and while not redirecting: info is held for the format! only.
HelloScript ==
    <<Wr("state"), Un("state"), Wr("info"), Un("info")>> \o SendScript

\* The instructions of each operation.
Script(op) ==
    CASE op = "logon"          -> LogonScript
      [] op = "pe_top"         -> <<Rd("state"), Rd("server"), Un("server"), Un("state")>>
      [] op = "pe_redirect"    -> ConnectScript
      [] op = "reconnect"      -> ReconnectScript
      [] op = "service"        -> <<Lk("host"), Un("host")>>
      [] op = "on_connect"     -> SetStatusScript \o <<Wr("peer_id"), Un("peer_id")>>
      [] op = "on_disconnect"  -> SetStatusScript
      [] op = "on_hello_redirect" -> HelloRedirectScript
      [] op = "on_hello"       -> HelloScript
      [] op = "poll_check"     -> <<Rd("state"), Un("state")>>
      [] op = "collect"        -> CollectScript
      [] op = "set_ping"       -> SetPingScript
      [] op = "relog"          -> RelogScript
      [] op = "disconnect"     -> DisconnectScript
      [] op = "send_packet"    -> SendScript
      [] op = "send_packet_raw" -> SendScript
      [] op = "walk"           -> WalkScript
      [] op = "find_path"      -> FindPathScript
      [] op = "place"          -> PlaceScript
      [] OTHER                 -> <<>>

\* The actions another thread may call at any time.
Actions ==
    {"relog", "disconnect", "send_packet", "send_packet_raw", "walk", "find_path",
     "collect", "place", "set_ping"}

\* What a thread runs after an operation.
Succ(t, op) ==
    IF t = "ctl" THEN (IF op = "idle" THEN Actions ELSE {"idle"})
    ELSE IF t = "poll" THEN
        CASE op = "unborn"     -> {"poll_check"}
          [] op = "poll_check" -> {"collect", "end"}
          [] op = "collect"    -> {"set_ping"}
          [] op = "set_ping"   -> {"poll_check"}
          [] OTHER             -> {}
    ELSE
        CASE op = "logon"         -> {"pe_top"}
          [] op = "pe_top"        -> {"end", "pe_redirect", "reconnect"}
          [] op = "pe_redirect"   -> {"service"}
          [] op = "reconnect"     -> {"service", "end"}
          [] op = "service"       -> {"service", "on_connect", "on_disconnect",
                                      "on_hello_redirect", "on_hello"}
          [] op = "on_disconnect" -> {"pe_top"}
          [] op \in {"on_connect", "on_hello_redirect", "on_hello"} -> {"service"}
          [] OTHER                -> {}

\* The instruction thread t is at, if its operation is not over.
InScript(t) == at[t].i <= Len(Script(at[t].op))
Ins(t) == Script(at[t].op)[at[t].i]

\* Another thread waits to write lock l.
WriterWaits(t, l) ==
    \E u \in Threads \ {t} : InScript(u) /\ Ins(u).k = "write" /\ Ins(u).l = l

\* The lock can be taken by t in the mode of instruction kind k.
Free(t, l, k) ==
    IF k \in {"read", "try_read"}
    THEN lk[l].w = "none"
    ELSE lk[l].w = "none" /\ lk[l].r = {}

Taken(t, l, k) ==
    IF k \in {"read", "try_read"}
    THEN [lk EXCEPT ![l].r = @ \cup {t}]
    ELSE [lk EXCEPT ![l].w = t]

\* Where a thread that goes to place i of an operation comes to rest: the
\* tests on data in its way are decided either way.
RECURSIVE Land(_, _)
Land(op, i) ==
    IF i > Len(Script(op)) THEN {i}
    ELSE IF Script(op)[i].k = "branch"
         THEN Land(op, i + 1) \cup Land(op, i + Script(op)[i].d)
         ELSE {i}

MoveTo(t, i, got) ==
    \E j \in Land(at[t].op, i) : at' = [at EXCEPT ![t].i = j, ![t].got = got]

\* read(), write(), lock(): the thread waits until the lock is free.
Acquire(t) ==
    /\ InScript(t)
    /\ Ins(t).k \in {"read", "write"}
    /\ Free(t, Ins(t).l, Ins(t).k)
    /\ lk' = Taken(t, Ins(t).l, Ins(t).k)
    /\ MoveTo(t, at[t].i + 1, TRUE)
    /\ UNCHANGED <<poolVars, botVars, pktVars, actVars, miscVars, ping>>

\* try_read(), try_write(), try_lock(): the thread never waits. An attempt
\* on a free lock succeeds, except that a try_read may also fail while a
\* writer waits; an attempt on a lock that is not free fails.
TryAcquire(t) ==
    /\ InScript(t)
    /\ Ins(t).k \in {"try_read", "try_write"}
    /\ \/ /\ Free(t, Ins(t).l, Ins(t).k)
          /\ lk' = Taken(t, Ins(t).l, Ins(t).k)
          /\ MoveTo(t, at[t].i + 1, TRUE)
       \/ /\ \/ ~Free(t, Ins(t).l, Ins(t).k)
             \/ Ins(t).k = "try_read" /\ WriterWaits(t, Ins(t).l)
          /\ lk' = lk
          /\ MoveTo(t, at[t].i + Ins(t).d, FALSE)
    /\ UNCHANGED <<poolVars, botVars, pktVars, actVars, miscVars, ping>>

\* A guard goes out of scope.
Release(t) ==
    /\ InScript(t)
    /\ Ins(t).k = "unlock"
    /\ lk' = [lk EXCEPT ![Ins(t).l] =
                 IF @.w = t THEN [@ EXCEPT !.w = "none"] ELSE [@ EXCEPT !.r = @ \ {t}]]
    /\ MoveTo(t, at[t].i + 1, TRUE)
    /\ UNCHANGED <<poolVars, botVars, pktVars, actVars, miscVars, ping>>

\* The round-trip times a sample can read.
PingSamples == {1}

\* set_ping stores the sample.
StorePing(t) ==
    /\ InScript(t)
    /\ Ins(t).k = "sample"
    /\ ping' \in PingSamples
    /\ MoveTo(t, at[t].i + 1, TRUE)
    /\ UNCHANGED <<poolVars, botVars, pktVars, actVars, miscVars, lk>>

\* An operation is over and the thread starts what follows it. The passive
\* thread is spawned by logon.
NextOp(t) ==
    /\ ~InScript(t)
    /\ t = "poll" /\ at[t].op = "unborn" => at["main"].op # "logon"
    /\ \E op \in Succ(t, at[t].op) : \E j \in Land(op, 1) :
          at' = [at EXCEPT ![t] = [op |-> op, i |-> j, got |-> TRUE]]
    /\ UNCHANGED <<poolVars, botVars, pktVars, actVars, miscVars, lk, ping>>

\* A constructed bot whose logon is about to run.
InitLock ==
    /\ IdlePool
    /\ InitMisc
    /\ is_running = FALSE
    /\ is_redirecting = FALSE
    /\ server = NoServer
    /\ token = ""
    /\ login_method = "LEGACY"
    /\ oauth_links = <<>>
    /\ server_data = NoServerData
    /\ timeout = 0
    /\ peer_id = "None"
    /\ peer = "free"
    /\ hostLock = "free"
    /\ pc = [t \in Threads |-> IF t = "main" THEN "logon" ELSE IF t = "ctl" THEN "idle" ELSE "unborn"]
    /\ loc = [t \in Threads |-> NoLoc]
    /\ oauthReturned = FALSE
    /\ last = NoOp
    /\ world = NoWorld
    /\ position = Origin
    /\ inventory = EmptyInventory
    /\ act = NoAct
    /\ lk = FreeLocks
    /\ at = [t \in Threads |->
                [Resting EXCEPT !.op = IF t = "main" THEN "logon"
                                       ELSE IF t = "ctl" THEN "idle" ELSE "unborn"]]
    /\ ping = 0

NextLock ==
    \/ \E t \in Threads : Acquire(t)
    \/ \E t \in Threads : TryAcquire(t)
    \/ \E t \in Threads : Release(t)
    \/ \E t \in Threads : StorePing(t)
    \/ \E t \in Threads : NextOp(t)

\* The three threads on the locks of one bot.
SpecLock == InitLock /\ [][NextLock]_vars

\* ------------------------------------------------------- after the logon

\* A bot whose logon has set is_running and spawned the passive thread, and
\* is about to enter process_events.
InitRelog ==
    /\ IdlePool
    /\ is_running = TRUE
    /\ is_redirecting = FALSE
    /\ server = NoServer
    /\ token \in {"", "tokA"}
    /\ login_method \in Methods
    /\ oauth_links = <<>>
    /\ server_data = NoServerData
    /\ timeout = 0
    /\ peer_id = "None"
    /\ peer = "free"
    /\ hostLock = "free"
    /\ pc = [t \in Threads |-> IF t = "main" THEN "pe_top"
                               ELSE IF t = "ctl" THEN "idle" ELSE "poll_check"]
    /\ loc = [t \in Threads |-> NoLoc]
    /\ oauthReturned = FALSE
    /\ last = NoOp
    /\ InitFields

\* Every step but logon: the bot is logged on once and never again.
NextRelog ==
    \/ PeTop \/ PeConnect \/ PeRet
    \/ \E t \in Runners : ToHttpFail(t)
    \/ \E t \in Runners : ToHttpOk(t)
    \/ \E t \in Runners : RcInvokeOauth(t)
    \/ \E t \in Runners : RcSkipOauth(t)
    \/ \E t \in Runners : OlFail(t)
    \/ \E t \in Runners : OlBodyErr(t)
    \/ \E t \in Runners : OlOk(t)
    \/ \E t \in Runners : OlStore(t)
    \/ \E t \in Runners : SlWake(t)
    \/ \E t \in Runners : TsvStart(t)
    \/ \E t \in Runners : TsvFail(t)
    \/ \E t \in Runners : TsvRetry(t)
    \/ \E t \in Runners : TsvBadJson(t)
    \/ \E t \in Runners : TsvReply(t)
    \/ \E t \in Runners : TsvStore(t)
    \/ \E t \in Runners : GtLoginErr(t)
    \/ \E t \in Runners : GtInvalid(t)
    \/ \E t \in Runners : GtLoginOk(t)
    \/ \E t \in Runners : GtStore(t)
    \/ \E t \in Runners : RcCheck(t)
    \/ \E t \in Runners : RcAddr(t)
    \/ \E t \in Runners : RcConnect(t)
    \/ SvcLock \/ SvcNone \/ SvcConnect \/ SvcDisconnect \/ SvcReceive
    \/ HandleNone \/ HandleConnect \/ HandleDisconnect \/ HandleShort
    \/ HandlePacket \/ HandleRedirect \/ SvcSleep
    \/ RelogStart \/ RelogDisconnect
    \/ PollCheck \/ PollWork

\* A logged-on bot and relog calls, with no later logon.
SpecRelog == InitRelog /\ [][NextRelog]_vars

\* ------------------------------------------------- a bot holding a proxy

\* Bot 1 has been constructed through the first pool entry and is not yet
\* logged on; bot 2 is still to be constructed, through a proxy as well.
InitLife ==
    /\ proxies = [i \in 1..NumProxies |-> IF i = 1 THEN <<1>> ELSE <<>>]
    /\ pmLock = 0
    /\ ctor = [b \in Bots |-> IF b = 2 THEN "new" ELSE "done"]
    /\ ctorIdx = [b \in Bots |-> IF b = 1 THEN 1 ELSE 0]
    /\ useProxy = [b \in Bots |-> b \in {1, 2}]
    /\ socket = [b \in Bots |-> IF b = 1 THEN "socks5" ELSE IF b = 2 THEN "none" ELSE "udp"]
    /\ IdleBot

\* The operations of the constructed bot, and the construction of another.
NextLife ==
    \/ \E b \in Bots : NewStart(b)
    \/ \E b \in Bots : NewFind(b)
    \/ \E b \in Bots : NewPush(b)
    \/ \E b \in Bots : NewBind(b)
    \/ Logon \/ PeTop \/ PeConnect \/ PeRet
    \/ \E t \in Runners : ToHttpFail(t)
    \/ \E t \in Runners : ToHttpOk(t)
    \/ \E t \in Runners : RcInvokeOauth(t)
    \/ \E t \in Runners : OlFail(t)
    \/ \E t \in Runners : OlBodyErr(t)
    \/ \E t \in Runners : OlOk(t)
    \/ \E t \in Runners : OlStore(t)
    \/ \E t \in Runners : SlWake(t)
    \/ \E t \in Runners : TsvStart(t)
    \/ \E t \in Runners : GtLoginErr(t)
    \/ \E t \in Runners : GtLoginOk(t)
    \/ \E t \in Runners : GtStore(t)
    \/ \E t \in Runners : RcCheck(t)
    \/ \E t \in Runners : RcAddr(t)
    \/ \E t \in Runners : RcConnect(t)
    \/ SvcLock \/ SvcNone \/ SvcConnect \/ SvcDisconnect \/ SvcReceive
    \/ HandleNone \/ HandleConnect \/ HandleDisconnect \/ HandleShort
    \/ HandlePacket \/ HandleRedirect \/ SvcSleep
    \/ RelogStart \/ RelogDisconnect \/ ActDisconnect
    \/ PollCheck \/ PollWork

\* The life of one bot that holds a pool entry.
SpecLife == InitLife /\ [][NextLife]_vars

\* ------------------------------------------------------ status and the log

MaxLines == 4          \* log lines sent in one run
MaxSenders == 2        \* senders of the log channel alive at once

\* logging::info, warn and error(message, &sender) put one line on the
\* channel.
LogLine(level, text) == [level |-> level, text |-> text]
Sent(ch, lines) == [ch EXCEPT !.queue = @ \o lines]

\* A call that fails, by what it does to the status and the log up to its
\* return: the set_status calls in their order, then the lines logged.
\* get_token with no stored token whose login request returns Err.
TokenFailure ==
    [statuses |-> <<"Checking refresh token", "Getting token">>,
     lines |-> <<LogLine("info", "Checking if token is still valid"),
                 LogLine("info", "Getting token for core"),
                 LogLine("error", "Failed to get legacy token")>>,
     failure |-> "Failed to get legacy token"]

\* get_oauth_links returning Err, and the arm of reconnect that takes it.
OauthFailure ==
    [statuses |-> <<"Getting OAuth links">>,
     lines |-> <<LogLine("info", "Getting OAuth links"),
                 LogLine("info", "Failed to get OAuth links")>>,
     failure |-> "Failed to get OAuth links"]

\* connect_to_server whose host.connect returns Err.
ConnectFailure ==
    [statuses |-> <<"Connecting to the server">>,
     lines |-> <<LogLine("info", "Connecting to the server"),
                 LogLine("error", "Failed to connect to the server")>>,
     failure |-> "Failed to connect to the server"]

\* send_packet or send_packet_raw whose peer.send returns Err.
SendFailure ==
    [statuses |-> <<>>,
     lines |-> <<LogLine("error", "Failed to send packet")>>,
     failure |-> "Failed to send packet"]

Failures == {TokenFailure, OauthFailure, ConnectFailure, SendFailure}

\* set_status called with each of `statuses` in turn.
StatusAfter(st, statuses) ==
    IF statuses = <<>> THEN st ELSE statuses[Len(statuses)]

\* The lines sent so far: in the buffer, in the consumer's hand, in flight.
Stream == logs \o logger.held \o channel.queue

\* The Bot (which holds a sender) runs a call that fails as f.
Fails(f) ==
    /\ channel.senders > 0
    /\ Len(Stream) + Len(f.lines) <= MaxLines
    /\ status' = StatusAfter(status, f.statuses)
    /\ channel' = Sent(channel, f.lines)
    /\ UNCHANGED <<poolVars, botVars, pktVars, actVars, lockVars, logs, logger,
                   is_not_allowed_to_warp>>

\* The Connect arm of process_events: a line and the status "Connected".
Connected ==
    /\ channel.senders > 0
    /\ Len(Stream) + 1 <= MaxLines
    /\ status' = "Connected"
    /\ channel' = Sent(channel, <<LogLine("info", "Connected to the server")>>)
    /\ UNCHANGED <<poolVars, botVars, pktVars, actVars, lockVars, logs, logger,
                   is_not_allowed_to_warp>>

\* receiver.recv() returns Ok(message): the oldest line in flight.
LogRecv ==
    /\ logger.state = "recv"
    /\ channel.queue # <<>>
    /\ logger' = [state |-> "push", held |-> <<Head(channel.queue)>>]
    /\ channel' = [channel EXCEPT !.queue = Tail(@)]
    /\ UNCHANGED <<poolVars, botVars, pktVars, actVars, lockVars, status, logs,
                   is_not_allowed_to_warp>>

\* logs.push(message)
PushedFirst(ls, m) == <<m>> \o ls

Pushed(ls, m) == Append(ls, m)

\* The consumer takes the lock on the buffer and pushes the message.
LogPush ==
    /\ logger.state = "push"
    /\ logs' = Pushed(logs, logger.held[1])
    /\ logger' = Listening
    /\ UNCHANGED <<poolVars, botVars, pktVars, actVars, lockVars, status, channel,
                   is_not_allowed_to_warp>>

\* receiver.recv() returns Err: nothing in flight and no sender left.
RecvFails(ch) == ch.queue = <<>> /\ ch.senders = 0

\* `Err(_) => break`: the consumer thread ends.
LogStop ==
    /\ logger.state = "recv"
    /\ RecvFails(channel)
    /\ logger' = [Listening EXCEPT !.state = "stopped"]
    /\ UNCHANGED <<poolVars, botVars, pktVars, actVars, lockVars, status, channel, logs,
                   is_not_allowed_to_warp>>

\* The public sender is cloned by a holder of the Bot.
SenderClone ==
    /\ channel.senders > 0
    /\ channel.senders < MaxSenders
    /\ channel' = [channel EXCEPT !.senders = @ + 1]
    /\ UNCHANGED <<poolVars, botVars, pktVars, actVars, lockVars, status, logs, logger,
                   is_not_allowed_to_warp>>

\* A sender is dropped: a clone, or the Bot's own when the Bot is dropped.
SenderDrop ==
    /\ channel.senders > 0
    /\ channel' = [channel EXCEPT !.senders = @ - 1]
    /\ UNCHANGED <<poolVars, botVars, pktVars, actVars, lockVars, status, logs, logger,
                   is_not_allowed_to_warp>>

\* A constructed bot: the consumer thread is running.
InitLog == IdlePool /\ IdleBot

NextLog ==
    \/ \E f \in Failures : Fails(f)
    \/ Connected
    \/ LogRecv \/ LogPush \/ LogStop
    \/ SenderClone \/ SenderDrop

\* The calls that fail, the log channel and its consumer.
SpecLog == InitLog /\ [][NextLog]_vars

\* ------------------------------------------------- warp, leave and walk

\* warp's first test: `if is_not_allowed_to_warp { return; }`.
WarpAllowedAlways(flag) == TRUE

WarpAllowed(flag) == ~flag

\* The text messages of warp and leave.
JoinRequest(name) ==
    [kind |-> NetMessageGameMessage,
     text |-> <<"action|join_request\nname|", name, "\ninvitedWorld|0\n">>]
QuitToExit == [kind |-> NetMessageGameMessage, text |-> <<"action|quit_to_exit\n">>]

\* What a call that hands the messages ms (none or one) to send_packet does.
Sending(op, ms) ==
    LET tx == IF ms = <<>> THEN [wire |-> <<>>, errs |-> 0]
              ELSE Transmit(TextBuffer(ms[1]), peer_id, hostLock, peer)
    IN [NoOp EXCEPT !.op = op, !.handed = ms, !.wire = tx.wire, !.errs = tx.errs]

\* warp(world_name)
ActWarp(name) ==
    /\ pc["ctl"] \in {"idle", "th_req"}
    /\ IF WarpAllowed(is_not_allowed_to_warp)
       THEN /\ Len(Stream) < MaxLines
            /\ channel' = Sent(channel, <<LogLine("info", "Warping to world")>>)
            /\ last' = Sending("warp", <<JoinRequest(name)>>)
       ELSE /\ channel' = channel
            /\ last' = Sending("warp", <<>>)
    /\ UNCHANGED <<poolVars, botVars, actVars, lockVars, status, logs, logger,
                   is_not_allowed_to_warp>>

\* leave()
ActLeave ==
    /\ pc["ctl"] \in {"idle", "th_req"}
    /\ last' = Sending("leave", IF IsInWorld(world) THEN <<QuitToExit>> ELSE <<>>)
    /\ UNCHANGED <<poolVars, botVars, actVars, lockVars, miscVars>>

\* The names warp is called with.
WorldNames == {"W", "START"}

\* A logged-on bot with a connected peer, in a world or not, allowed to
\* warp or not.
InitGuard ==
    /\ IdlePool
    /\ is_running = TRUE
    /\ is_redirecting = FALSE
    /\ server = NoServer
    /\ token = "tokA"
    /\ login_method = "LEGACY"
    /\ oauth_links = ThreeLinks
    /\ server_data = GoodServerData
    /\ timeout = 0
    /\ peer_id = "Some"
    /\ peer = "connected"
    /\ hostLock = "free"
    /\ pc = [t \in Threads |-> IF t = "main" THEN "svc_poll"
                               ELSE IF t = "ctl" THEN "idle" ELSE "poll_check"]
    /\ loc = [t \in Threads |-> NoLoc]
    /\ oauthReturned = TRUE
    /\ last = NoOp
    /\ world \in {NoWorld, [name |-> "W", dropped |-> <<>>]}
    /\ position = Origin
    /\ inventory = EmptyInventory
    /\ act = NoAct
    /\ lk = FreeLocks
    /\ at = [t \in Threads |-> Resting]
    /\ ping = 0
    /\ status = "Connected"
    /\ channel = NewChannel
    /\ logs = <<>>
    /\ logger = Listening
    /\ is_not_allowed_to_warp \in BOOLEAN

NextGuard ==
    \/ \E name \in WorldNames : ActWarp(name)
    \/ ActLeave
    \/ \E x \in {0 - 1, 1}, ap \in BOOLEAN : ActWalk(x, 0, ap)
    \/ RelogStart
    \/ RelogDisconnect

\* warp, leave and walk on a logged-on bot, with a relog by another caller.
SpecGuard == InitGuard /\ [][NextGuard]_vars

\* ------------------------------------------- find_path beside other callers

\* find_path(x, 0) called on the controlling thread: the position is read
\* and the path found; the loop is entered when there is a waypoint.
FindPathCall(gx) ==
    /\ pc["ctl"] = "idle"
    /\ LET paths == AStarPath(TileOf(position.x), TileOf(position.y), gx, 0) IN
       /\ act' = [NoAct EXCEPT !.op = "find_path", !.arg = paths, !.path = paths]
       /\ Goto("ctl", IF paths = <<>> THEN "idle" ELSE "fp_write")
    /\ UNCHANGED <<poolVars, pktVars, lockVars, miscVars, flagVars, infoVars, hostVars,
                   loc, oauthReturned, world, position, inventory>>

\* The loop's block under position.write(): the position is set on the
\* waypoint and the guard is dropped.
FindPathWrite ==
    /\ pc["ctl"] = "fp_write"
    /\ LET node == Head(act.path) IN
       position' = [x |-> node.x * TileSize, y |-> TouchGround(node.y * TileSize)]
    /\ Goto("ctl", "fp_walk")
    /\ UNCHANGED <<poolVars, pktVars, lockVars, miscVars, flagVars, infoVars, hostVars,
                   loc, oauthReturned, world, inventory, act>>

\* walk(node.x, node.y, true): the packet is built from the position read
\* under a new guard, and sent if is_running and in a world; then the delay.
FindPathWalk ==
    /\ pc["ctl"] = "fp_walk"
    /\ LET sends == WalkSends(is_running, world) IN
       act' = [act EXCEPT !.raws = @ \o (IF sends THEN <<WalkPkt(position)>> ELSE <<>>),
                          !.trace = @ \o (IF sends THEN <<"packet">> ELSE <<>>) \o <<"delay">>,
                          !.path = Tail(@)]
    /\ Goto("ctl", IF Tail(act.path) = <<>> THEN "idle" ELSE "fp_write")
    /\ UNCHANGED <<poolVars, pktVars, lockVars, miscVars, flagVars, infoVars, hostVars,
                   loc, oauthReturned, world, position, inventory>>

\* walk(x, y, false) called by another thread.
OtherWalk(x, y) ==
    /\ LET p == WalkPosition(position, x, y, FALSE) IN
       /\ TileOf(p.x) \in Row
       /\ position' = p
       /\ last' = [NoOp EXCEPT !.op = "walk",
                               !.handed = IF WalkSends(is_running, world)
                                          THEN <<WalkPkt(p)>> ELSE <<>>]
    /\ UNCHANGED <<poolVars, botVars, lockVars, miscVars, world, inventory, act>>

\* A logged-on bot in a world.
InitRace ==
    /\ InitGuard
    /\ IsInWorld(world)
    /\ ~is_not_allowed_to_warp

NextRace ==
    \/ \E gx \in Row : FindPathCall(gx)
    \/ FindPathWrite
    \/ FindPathWalk
    \/ \E x \in {0 - 1, 1} : OtherWalk(x, 0)

\* One thread in find_path, another calling walk.
SpecRace == InitRace /\ [][NextRace]_vars

\* ------------------------------------------------------------------ claims

\* C1: whatever the order in which constructions that share one pool run,
\* no pool entry ever records more than ProxyCap (3) identities.
C1_ProxyCapHolds == \A i \in 1..NumProxies : Len(proxies[i]) <= ProxyCap

\* C1 witness: every construction has finished, every entry is full, and a
\* bot that asked for a proxy found none below the cap and bound plain UDP.
C1_Witness ==
    /\ \A b \in Bots : ctor[b] = "done"
    /\ \A i \in 1..NumProxies : Len(proxies[i]) = ProxyCap
    /\ \E i \in 1..NumProxies : \E k \in 1..ProxyCap : proxies[i][k] \in Bots
    /\ \E b \in Bots : useProxy[b] /\ socket[b] = "udp"


\* A thread has left its loop for good: returned, or unwound by a panic.
Exited(t) == pc[t] \in {"done", "panicked"}

\* C2: once is_running is false and stays false, the primary engine thread
\* and the passive-behaviour thread both eventually exit, whatever loop they
\* are in and whichever events arrive or fail to arrive.
C2_StopEndsEveryThread ==
    <>[](~is_running) => <>[](Exited("main") /\ Exited("poll"))

\* Thread t's reconnect call returns false in this step.
ReturnsFalse(t) ==
    /\ pc'[t] = (IF t = "main" THEN "pe_ret" ELSE "idle")
    /\ t = "main" => loc'[t].ret = "false"

\* C3: a reconnect that finds is_running false at its checkpoint returns
\* false in that step, without touching the host's peer: it never reaches
\* connect_to_server.
C3_CheckpointStops ==
    [][\A t \in Runners :
          (pc[t] = "rc_check" /\ ~is_running /\ pc'[t] # "rc_check")
              => (ReturnsFalse(t) /\ peer' = peer)]_vars

\* C3 witness: the primary thread's reconnect (STEAM: no OAuth step that
\* could have returned false earlier) has returned false with is_running
\* false.
C3_Witness ==
    /\ login_method = "STEAM"
    /\ pc["main"] = "pe_ret"
    /\ loc["main"].ret = "false"
    /\ ~is_running

\* C4: when reconnect has returned false, the primary loop's next step is
\* its return, and a returned primary loop never runs again: no further
\* event is serviced and no connection attempt is started by it.
C4_FalseEndsLoop ==
    [][/\ (pc["main"] = "pe_ret" /\ loc["main"].ret = "false")
            => pc'["main"] \in {"pe_ret", "done"}
       /\ pc["main"] = "done" => pc'["main"] = "done"]_vars

\* C4 witness: the primary loop has returned while is_running is still true,
\* which only a false return of reconnect brings about.
C4_Witness == pc["main"] = "done" /\ is_running

\* C5: a reconnect whose get_token failed (the login path returned an error,
\* or the login method is invalid) never gets as far as connect_to_server.
C5_TokenFailureAborts ==
    \A t \in Runners : pc[t] = "rc_conn" => loc[t].tokOut \notin {"failed", "invalid"}

\* C6: token_still_valid. With an empty token it returns false at once (the
\* login path follows, no request, token unchanged); with a token it sends
\* the request; it returns true exactly on a 200 reply with status
\* "success", storing the reply's token; on another status it returns false
\* with the token unchanged; a failed request only leads to the next one.
C6_TokenStillValid ==
    [][\A t \in Runners :
          /\ (pc[t] = "tsv_start" /\ pc'[t] # "tsv_start")
                => IF token = ""
                   THEN pc'[t] = "gt_login" /\ token' = token
                   ELSE pc'[t] = "tsv_req" /\ token' = token
          /\ (pc[t] = "tsv_req" /\ pc'[t] = "tsv_store")
                => loc'[t].reply.status = "success"
          /\ (pc[t] = "tsv_req" /\ pc'[t] = "gt_login")
                => loc'[t].reply.status \notin {"success", "none"} /\ token' = token
          /\ (pc[t] = "tsv_req" /\ pc'[t] # "tsv_req")
                => pc'[t] \in {"tsv_store", "gt_login", "tsv_pause", "panicked"}
          /\ (pc[t] = "tsv_pause" /\ pc'[t] # "tsv_pause")
                => pc'[t] = "tsv_req" /\ token' = token
          /\ (pc[t] = "tsv_store" /\ pc'[t] # "tsv_store")
                => /\ token' = loc[t].reply.token
                   /\ pc'[t] = "rc_check"
                   /\ loc'[t].tokOut = "ok"]_vars

\* C6 witness: token_still_valid has returned true on the primary thread and
\* the stored token is the one the refresh reply carried.
C6_Witness ==
    /\ pc["main"] = "rc_check"
    /\ loc["main"].tokOut = "ok"
    /\ token = "tokB"

\* C7: once is_running is false for good, the primary thread does not stay
\* in token_still_valid's retry loop: it eventually leaves it for good.
C7_RefreshLoopCancellable ==
    <>[](~is_running) => <>[](pc["main"] \notin {"tsv_req", "tsv_pause"})

\* Thread t calls get_oauth_links in this step.
InvokesOauth(t) == pc[t] = "rc_snap" /\ pc'[t] = "ol_req"

\* C8 as claimed: get_oauth_links is never called for STEAM, and never again
\* once a call has returned Ok.
C8_OauthAtMostOnce ==
    [][\A t \in Runners : InvokesOauth(t) => (login_method # "STEAM" /\ ~oauthReturned)]_vars

\* C8 amended: get_oauth_links is called only from reconnect, only for a
\* method other than STEAM, and only while the stored link list is empty.
C8_OauthOnlyWhileEmpty ==
    [][\A t \in Runners :
          /\ InvokesOauth(t) => (login_method # "STEAM" /\ oauth_links = <<>>)
          /\ (pc'[t] = "ol_req" /\ pc[t] \notin {"ol_req", "sl_wait"}) => pc[t] = "rc_snap"
          /\ (pc[t] = "rc_snap" /\ pc'[t] # "rc_snap" /\ oauth_links # <<>>)
                => pc'[t] = "tsv_start"]_vars

\* C8 witness: a call is being made although an earlier call returned Ok:
\* that call returned (and reconnect stored) an empty list.
C8_Witness ==
    /\ oauthReturned
    /\ oauth_links = <<>>
    /\ login_method # "STEAM"
    /\ \E t \in Runners : pc[t] = "ol_req"

\* C9: a sleep() call returns after exactly TimeoutSecs decrements of its own.
C9_ExactlyTDecrements ==
    [][\A t \in Runners :
          (pc[t] = "sl_wait" /\ pc'[t] # "sl_wait") => loc[t].decs = TimeoutSecs]_vars

\* C10: whenever the host's peer is disconnected and no Disconnect event is
\* waiting to be processed, peer_id is None.
C10_PeerIdTracksConnection ==
    (peer = "free" /\ ~(pc["main"] = "svc_handle" /\ loc["main"].ev = "Disconnect"))
        => peer_id = "None"

\* C11: in the connected sub-loop every iteration, whatever the event it
\* got, sleeps the fixed 10 ms before it asks the transport again.
C11_EveryIterationYields ==
    [][(pc["main"] \in {"svc_handle", "svc_sleep"} /\ pc'["main"] = "svc_poll")
          => pc["main"] = "svc_sleep"]_vars

\* C12: a processed Disconnect leaves the sub-loop for the top of the outer
\* loop; from there, while is_running is true, the engine starts server
\* discovery when is_redirecting is false, and otherwise connects directly
\* to the stored Server ip/port, touching neither the discovery data nor
\* the token.
C12_DisconnectRestarts ==
    [][/\ (pc["main"] = "svc_handle" /\ loc["main"].ev = "Disconnect"
            /\ pc'["main"] # "svc_handle") => pc'["main"] = "pe_top"
       /\ (pc["main"] = "pe_top" /\ is_running /\ pc'["main"] # "pe_top")
            => IF is_redirecting
               THEN pc'["main"] = "pe_conn" /\ loc'["main"].tgt = server
               ELSE pc'["main"] = "th_req"
       /\ (pc["main"] = "pe_conn" /\ pc'["main"] # "pe_conn")
            => /\ pc'["main"] = "svc_poll"
               /\ token' = token
               /\ server_data' = server_data
               /\ (peer = "free" => peer' = "connecting")]_vars

\* C12 witness: after a redirect and the Disconnect that follows it, the
\* engine is about to connect to the redirect target.
C12_Witness ==
    /\ pc["main"] = "pe_conn"
    /\ is_running /\ is_redirecting
    /\ loc["main"].tgt = RedirectServer
    /\ peer = "free"

\* ---- reading a handler call and its message

\* The Receive arm runs to its end in this step.
ReceiveArmRuns ==
    pc["main"] = "svc_in" /\ pc'["main"] \in {"svc_sleep", "svc_poll", "panicked"}

\* The kind and the payload of the message the last handler call got.
KindOf(data) == FromLE32(SubSeq(data, 1, TagSize))
PayloadOf(data) == SubSeq(data, TagSize + 1, Len(data))
IsHello(l) == l.op = "handle" /\ KindOf(l.data) = NetMessageServerHello
IsGamePacket(l) == l.op = "handle" /\ KindOf(l.data) = NetMessageGamePacket

\* The lines of a text: keys, values, and the `|` and newline of each line.
NumLines(text) == Len(text) \div 4
KeysOf(text) == [i \in 1..NumLines(text) |-> text[4 * i - 3]]
ValuesOf(text) == [i \in 1..NumLines(text) |-> text[4 * i - 1]]
LinesWellFormed(text) ==
    /\ Len(text) % 4 = 0
    /\ \A i \in 1..NumLines(text) : text[4 * i - 2] = "|" /\ text[4 * i] = "\n"
    /\ \A i, j \in 1..NumLines(text) : text[4 * i - 3] = text[4 * j - 3] => i = j
OneGenericText(l) ==
    Len(l.handed) = 1 /\ l.handed[1].kind = NetMessageGenericText
IsFull(text) ==
    LinesWellFormed(text) /\ KeysOf(text) = HandshakeKeys /\ ValuesOf(text) = HandshakeFields
IsLight(text, tok) ==
    /\ LinesWellFormed(text)
    /\ KeysOf(text) = <<"protocol", "ltoken", "platformID">>
    /\ ValuesOf(text) = <<"209", tok, "0,1,1">>

\* C13 as claimed: a server-hello handled while is_redirecting is true
\* yields exactly one generic-text message of 26 well-formed key|value
\* lines, each key once.
C13_HelloSendsAll26 ==
    (IsHello(last) /\ is_redirecting)
        => /\ OneGenericText(last)
           /\ LinesWellFormed(last.handed[1].text)
           /\ NumLines(last.handed[1].text) = 26

\* C13 amended: the message has the 27 lines UUIDToken .. wk of the handler's
\* format string, in that order, each key once, each line ended by a
\* newline, and it is passed to send_packet exactly once.
C13_HelloSendsAll27 ==
    (IsHello(last) /\ is_redirecting)
        => /\ OneGenericText(last)
           /\ IsFull(last.handed[1].text)
           /\ NumLines(last.handed[1].text) = 27
           /\ KeysOf(last.handed[1].text)[1] = "UUIDToken"
           /\ KeysOf(last.handed[1].text)[27] = "wk"

\* C13 witness: a server-hello was handled mid-redirect and its message
\* went out on the connected peer.
C13_Witness ==
    /\ IsHello(last) /\ is_redirecting
    /\ Len(last.handed) = 1
    /\ Len(last.wire) = 1

\* C14 as claimed: the server-hello message is the light one exactly when
\* the session is mid-redirect, and the full one otherwise.
C14_LightWhenRedirecting ==
    IsHello(last)
        => /\ OneGenericText(last)
           /\ IF is_redirecting
              THEN NumLines(last.handed[1].text) = 3
              ELSE IsFull(last.handed[1].text)

\* C14 amended: the message is the full one exactly when the session is
\* mid-redirect, and otherwise the light one: protocol 209, ltoken with the
\* bearer token, platformID 0,1,1.
C14_FullWhenRedirecting ==
    IsHello(last)
        => /\ OneGenericText(last)
           /\ IF is_redirecting
              THEN IsFull(last.handed[1].text)
              ELSE IsLight(last.handed[1].text, token)

\* C14 witness: a server-hello was handled outside a redirect, with a
\* bearer token stored.
C14_Witness ==
    /\ IsHello(last) /\ ~is_redirecting
    /\ token = "tokA"
    /\ Len(last.handed) = 1

\* C15: a game-packet whose payload is shorter than the fixed header ends in
\* one logged decode error, no dispatch, the connection untouched and the
\* engine running on.
C15_ShortPacketIsLogged ==
    [][(ReceiveArmRuns /\ IsGamePacket(last') /\ Len(PayloadOf(last'.data)) < HeaderSize)
          => /\ last'.errs = 1
             /\ last'.disp = <<>>
             /\ pc'["main"] = "svc_sleep"
             /\ peer' = peer]_vars

\* C16: a game-packet of at least the fixed header whose declared
\* extended-data length differs from the number of bytes after the header
\* is logged as a decode error and is not dispatched.
C16_LengthMismatchRejected ==
    [][(/\ ReceiveArmRuns /\ IsGamePacket(last')
        /\ Len(PayloadOf(last'.data)) >= HeaderSize
        /\ FromLE32(SubSeq(PayloadOf(last'.data), HeaderSize - 3, HeaderSize))
              # Len(PayloadOf(last'.data)) - HeaderSize)
          => (last'.errs >= 1 /\ last'.disp = <<>>)]_vars

\* Buffers whose action kind is a recognised one and whose declared length
\* is the number of bytes after the header.
ValidBuffers ==
    {b \in FullBuffers :
        /\ b[1] \in 0..LastTankPacketType
        /\ FromLE32(SubSeq(b, HeaderSize - 3, HeaderSize)) = Len(b) - HeaderSize}

\* C17: send_packet_raw of the packet decoded from a valid buffer builds the
\* game-packet tag followed by that buffer.
C17_DecodeEncodeRoundTrip ==
    last.op = "send_packet_raw"
        => \A b \in ValidBuffers :
              Deserialize(b).pkt = last.pkt
                 => last.built = LE32(NetMessageGamePacket) \o b

\* C18: the buffer send_packet_raw builds starts with the game-packet kind as
\* four little-endian bytes and is 4 + 56 + extended_data_length bytes long.
C18_RawBufferLength ==
    last.op = "send_packet_raw"
        => /\ Len(last.built) = 4 + 56 + last.pkt.ext
           /\ SubSeq(last.built, 1, 4) = <<4, 0, 0, 0>>

\* C18 witness: a packet with the largest length tried was built and sent.
C18_Witness ==
    /\ last.op = "send_packet_raw"
    /\ last.pkt.ext = MaxExt
    /\ Len(last.wire) = 1

\* C19: only a call-function packet is dispatched to the variant handler; a
\* game-packet of at least the fixed header with any other action-kind byte
\* is decoded, not dispatched and logs no error.
C19_OnlyCallFunctionDispatched ==
    [][ReceiveArmRuns
          => /\ last'.disp # <<>>
                  => (IsGamePacket(last') /\ PayloadOf(last'.data)[1] = 1)
             /\ (/\ IsGamePacket(last')
                 /\ Len(PayloadOf(last'.data)) >= HeaderSize
                 /\ PayloadOf(last'.data)[1] # 1)
                  => /\ last'.disp = <<>>
                     /\ last'.errs = 0
                     /\ pc'["main"] = "svc_sleep"]_vars

\* C19 witness: a packet with action-kind byte 255 was handled.
C19_Witness ==
    /\ IsGamePacket(last)
    /\ Len(PayloadOf(last.data)) >= HeaderSize
    /\ PayloadOf(last.data)[1] = 255
    /\ pc["main"] = "svc_sleep"

\* C20: with peer_id None, send_packet, send_packet_raw and disconnect (with
\* talk, leave, wear, ... built on them) give the transport nothing, log no
\* error and change neither peer_id nor the state flags nor the peer.
C20_NoPeerNoEffect ==
    [][(pc' = pc /\ peer_id = "None")
          => /\ last'.op \in {"send_packet", "send_packet_raw", "disconnect"}
             /\ last'.wire = <<>>
             /\ last'.errs = 0
             /\ peer_id' = "None"
             /\ <<is_running, is_redirecting>>' = <<is_running, is_redirecting>>
             /\ peer' = peer]_vars

\* C20 witness: disconnect() was called while the peer had connected but
\* its Connect event, which stores the handle, was still unprocessed.
C20_Witness ==
    /\ last.op = "disconnect"
    /\ peer_id = "None"
    /\ peer = "connected"

\* C30: a construction with proxy use appends its identity to the lowest
\* pool entry that holds fewer than 3 identities and changes no other
\* entry; when every entry holds 3 the pool is unchanged and the bot, like
\* one without proxy use, binds a direct UDP socket.
C30_ClaimsFirstFreeEntry ==
    [][\A b \in Bots :
          /\ (ctor[b] = "push" /\ ctor'[b] = "bind")
                => IF \E i \in 1..NumProxies : Len(proxies[i]) < 3
                   THEN \E i \in 1..NumProxies :
                           /\ Len(proxies[i]) < 3
                           /\ \A j \in 1..(i - 1) : Len(proxies[j]) >= 3
                           /\ proxies' = [proxies EXCEPT ![i] = Append(@, b)]
                   ELSE proxies' = proxies
          /\ (ctor[b] = "bind" /\ ctor'[b] = "done")
                => /\ proxies' = proxies
                   /\ socket'[b] =
                         IF \E i \in 1..NumProxies :
                               \E k \in 1..Len(proxies[i]) : proxies[i][k] = b
                         THEN "socks5" ELSE "udp"]_vars

\* C30 witness: a bot found the first entry full, claimed the second and is
\* bound through it.
C30_Witness ==
    \E b \in Bots :
        /\ ctor[b] = "done"
        /\ socket[b] = "socks5"
        /\ Len(proxies[1]) = 3
        /\ \A k \in 1..3 : proxies[1][k] # b
        /\ \E k \in 1..Len(proxies[2]) : proxies[2][k] = b

\* C26: no outcome of a discovery, OAuth or refresh request makes a thread
\* that runs reconnect panic.
C26_HttpErrorsNeverPanic == \A t \in Runners : pc[t] # "panicked"

\* C25: in a reconnect, a successful refresh stores the token of the reply;
\* with is_running true the checkpoint lets the attempt go on; discovery
\* data with a server and a port becomes the address handed to
\* connect_to_server; the connection is opened on the free peer and
\* reconnect returns true.
C25_ReconnectConnects ==
    [][\A t \in Runners :
          /\ (pc[t] = "tsv_store" /\ pc'[t] # "tsv_store")
                => (token' = loc[t].reply.token /\ pc'[t] = "rc_check")
          /\ (pc[t] = "rc_check" /\ pc'[t] # "rc_check" /\ is_running)
                => pc'[t] = "rc_addr"
          /\ (pc[t] = "rc_addr" /\ pc'[t] # "rc_addr"
              /\ server_data.server # "" /\ server_data.port # "")
                => /\ pc'[t] = "rc_conn"
                   /\ loc'[t].tgt = [ip |-> server_data.server, port |-> server_data.port]
          /\ (pc[t] = "rc_conn" /\ pc'[t] # "rc_conn")
                => /\ peer = "free" => peer' = "connecting"
                   /\ IF t = "main"
                      THEN pc'[t] = "pe_ret" /\ loc'[t].ret = "true"
                      ELSE pc'[t] = "idle"]_vars

\* C25 witness: the primary thread's reconnect has returned true with the
\* refreshed token stored and the connection to the discovered server
\* under way.
C25_Witness ==
    /\ pc["main"] = "pe_ret" /\ loc["main"].ret = "true"
    /\ is_running
    /\ token = "tokB"
    /\ server_data = [server |-> "1.2.3.4", port |-> "17091"]
    /\ peer = "connecting"

\* C27: the passive thread reaches collect and set_ping only through a check
\* that read is_running as true; a check that reads false ends the thread,
\* which then runs nothing more; and the work of an iteration is always
\* followed by the next check.
C27_PollStopsAtCheck ==
    [][/\ (pc["poll"] = "poll_check" /\ pc'["poll"] # "poll_check")
            => pc'["poll"] = (IF is_running THEN "poll_work" ELSE "done")
       /\ (pc["poll"] = "poll_work" /\ pc'["poll"] # "poll_work")
            => pc'["poll"] = "poll_check"
       /\ (pc'["poll"] = "poll_work" /\ pc["poll"] # "poll_work")
            => (pc["poll"] = "poll_check" /\ is_running)
       /\ pc["poll"] = "done" => pc'["poll"] = "done"]_vars

\* C27 witness: the passive thread has ended on a false is_running while
\* the primary thread is still inside its loop.
C27_Witness ==
    /\ pc["poll"] = "done"
    /\ ~is_running
    /\ pc["main"] \notin {"done", "panicked", "idle"}

\* An object is eligible for pickup: no stack of its item and fewer distinct
\* items than the inventory holds, or a stack of its item below 200.
Eligible(inv, id) ==
    \/ id \notin DOMAIN inv.items /\ inv.item_count < inv.size
    \/ id \in DOMAIN inv.items /\ inv.items[id] < 200

\* The squared distance in pixels between the bot and an object.
SquaredDistance(pos, obj) ==
    (pos.x - obj.x) * (pos.x - obj.x) + (pos.y - obj.y) * (pos.y - obj.y)

\* The dropped objects a collect call has to request.
Wanted ==
    {i \in 1..Len(world.dropped) :
        /\ SquaredDistance(position, world.dropped[i]) <= 25 * 32 * 32
        /\ Eligible(inventory, world.dropped[i].id)}

\* C21: a collect call hands send_packet_raw one item-activate-object
\* request (type 11, the object's coordinates and uid) for each dropped
\* object within 5 tiles (inclusive) that is eligible, and for no other;
\* outside a world it hands over none.
C21_CollectRequestsEligibleInRange ==
    act.op = "collect"
        => IF world.name = "EXIT"
           THEN act.raws = <<>>
           ELSE /\ Len(act.raws) = Cardinality(Wanted)
                /\ \A i \in 1..Len(world.dropped) :
                      (i \in Wanted) <=>
                          \E k \in 1..Len(act.raws) :
                              /\ act.raws[k].type = 11
                              /\ act.raws[k].value = world.dropped[i].uid
                              /\ act.raws[k].vector_x = world.dropped[i].x
                              /\ act.raws[k].vector_y = world.dropped[i].y

\* C21 witness: with the inventory full and a stack of X at 199, collect
\* has requested the object at distance exactly 5 and left out the one a
\* pixel farther.
C21_Witness ==
    /\ act.op = "collect"
    /\ position = [x |-> 0, y |-> 0]
    /\ inventory.size = inventory.item_count
    /\ ItemX \in DOMAIN inventory.items /\ inventory.items[ItemX] = 199
    /\ Len(world.dropped) = 2
    /\ world.dropped[1].uid = 1 /\ world.dropped[2].uid = 2
    /\ Len(act.raws) = 1 /\ act.raws[1].value = 1

PlaceOps == {"place", "punch", "wrench"}

\* C22: place, punch and wrench hand packets to send_packet_raw if and only
\* if both offsets are within 4 in absolute value; a rejected call hands
\* over nothing and changes no field of the bot.
C22_PlaceOnlyWithinFour ==
    [][(act'.op \in PlaceOps /\ act' # act)
          => /\ (act'.raws # <<>>) <=> (Abs(act'.arg[1]) <= 4 /\ Abs(act'.arg[2]) <= 4)
             /\ (act'.raws = <<>>)
                   => UNCHANGED <<botVars, pktVars, world, position, inventory, lockVars, miscVars>>]_vars

\* C22 witness: a placement at offset (4,4) was accepted.
C22_Witness ==
    /\ act.op = "place"
    /\ act.arg[1] = 4 /\ act.arg[2] = 4
    /\ Len(act.raws) = 2

\* C23: an accepted placement hands over exactly two packets, in this
\* order: a tile-change request (type 3) for the target tile with the item
\* id, then a state packet (type 0) with flags 2592 when offset_x > 0 and
\* 2608 otherwise.
C23_PlaceSendsRequestThenState ==
    (act.op \in PlaceOps /\ act.raws # <<>>)
        => /\ Len(act.raws) = 2
           /\ act.raws[1].type = 3
           /\ act.raws[1].int_x = (position.x \div 32) + act.arg[1]
           /\ act.raws[1].int_y = (position.y \div 32) + act.arg[2]
           /\ act.raws[1].value = act.arg[3]
           /\ act.raws[2].type = 0
           /\ act.raws[2].flags = IF act.arg[1] > 0 THEN 2592 ELSE 2608

\* C23 witness: an accepted punch to the right, from a tile other than the
\* origin.
C23_Witness ==
    /\ act.op = "punch"
    /\ act.arg[1] = 1 /\ act.arg[2] = 0 - 4
    /\ position.x = 32
    /\ Len(act.raws) = 2
    /\ act.raws[2].flags = 2592

\* The number of delays among the events of a playback.
RECURSIVE Delays(_)
Delays(tr) == IF tr = <<>> THEN 0
              ELSE (IF Head(tr) = "delay" THEN 1 ELSE 0) + Delays(Tail(tr))

\* C24 as stated: a finished playback of k waypoints has produced k times a
\* movement packet followed by a delay.
C24_PacketAndDelayPerWaypoint ==
    (act.op = "find_path" /\ act.path = <<>>)
        => /\ Len(act.trace) = 2 * Len(act.arg)
           /\ \A i \in 1..Len(act.arg) :
                 act.trace[2 * i - 1] = "packet" /\ act.trace[2 * i] = "delay"

\* C24, amended: each waypoint of a playback produces one delay, preceded
\* by one movement packet for the waypoint exactly when is_running is true
\* and the bot is in a world as the waypoint is visited.
C24_DelayPerWaypointPacketIfRunning ==
    [][/\ (act.op = "find_path" /\ act'.op = "find_path" /\ act' # act /\ act.path # <<>>)
            => LET go == is_running /\ world.name # "EXIT"
                   node == Head(act.path)
               IN /\ act'.path = Tail(act.path)
                  /\ act'.trace = act.trace \o (IF go THEN <<"packet", "delay">> ELSE <<"delay">>)
                  /\ Len(act'.raws) = Len(act.raws) + (IF go THEN 1 ELSE 0)
                  /\ go => /\ act'.raws[Len(act'.raws)].type = 0
                           /\ act'.raws[Len(act'.raws)].vector_x = node.x * 32
       /\ act'.op = "find_path"
            => Delays(act'.trace) = Len(act'.arg) - Len(act'.path)]_vars

\* C24 witness: a playback of two waypoints has ended with a packet for the
\* first only, is_running having been cleared in between.
C24_Witness ==
    /\ act.op = "find_path" /\ act.path = <<>>
    /\ Len(act.arg) = 2
    /\ act.trace = <<"packet", "delay", "delay">>

\* Lock l is held by a thread other than t in a mode that makes t's attempt
\* of kind k fail.
HeldAgainst(t, l, k) ==
    \/ lk[l].w \notin {"none", t}
    \/ k = "try_write" /\ lk[l].r \ {t} # {}

Waiting(t) == InScript(t) /\ Ins(t).k \in {"read", "write"}

\* Thread t cannot go on unless a thread of S does: the lock it waits for
\* is held against it by a thread of S, or t wants to read and a thread of
\* S waits to write (a lock that prefers writers keeps the reader out).
StuckIn(t, S) ==
    /\ Waiting(t)
    /\ \/ lk[Ins(t).l].w \in S
       \/ Ins(t).k = "write" /\ lk[Ins(t).l].r \cap S # {}
       \/ /\ Ins(t).k = "read"
          /\ \E u \in S \ {t} : Waiting(u) /\ Ins(u).k = "write" /\ Ins(u).l = Ins(t).l

\* C29: no set of threads is ever stuck on each other's locks (a thread
\* stuck on a lock it holds itself included), and no thread leaves an
\* operation with a lock still held.
C29_NoDeadlock ==
    /\ \A S \in SUBSET Threads : S # {} => \E t \in S : ~StuckIn(t, S)
    /\ \A t \in Threads : ~InScript(t) =>
          \A l \in LockNames : lk[l].w # t /\ t \notin lk[l].r

\* C29 witness: the primary thread waits for the host mutex, which the
\* passive thread holds in set_ping together with peer_id, while a walk
\* called from a third thread holds state and world.
C29_Witness ==
    /\ at["main"].op = "service" /\ Waiting("main")
    /\ lk["host"].w = "poll" /\ "poll" \in lk["peer_id"].r
    /\ at["ctl"].op = "walk" /\ "ctl" \in lk["state"].r /\ "ctl" \in lk["world"].r

\* C37: whenever process_events has returned, is_running is false (so the
\* passive thread's next check ends it), on every exit path.
C37_ReturnLeavesRunningFalse ==
    [][(pc["main"] # "done" /\ pc'["main"] = "done") => ~is_running']_vars

\* Thread t has come out of host.try_lock() inside send_packet or
\* send_packet_raw (called directly, or by the server-hello handler for the
\* login reply) holding the read guard on a Some peer_id: with the lock it
\* has called peer.send, whose error is logged; without it nothing was done.
SendOps == {"send_packet", "send_packet_raw", "on_hello", "on_hello_redirect"}
AfterSendAttempt(t) ==
    /\ at[t].op \in SendOps
    /\ InScript(t)
    /\ Ins(t) = Un("peer_id")

\* C36: a packet passed to send_packet or send_packet_raw while peer_id is
\* Some is handed to peer.send (or its failure logged) under every
\* interleaving: the attempt on the host lock never fails.
C36_SendNeverSilentlyDropped ==
    \A t \in Threads : AfterSendAttempt(t) => at[t].got

\* C38: under any interleaving of sleep() calls, info.timeout never goes
\* below 0; a call returns only in a state where info.timeout is 0; and the
\* decrements of all calls together take off exactly what the calls added:
\* info.timeout is 0 whenever no call is in progress.
C38_SleepCallsBalance ==
    [][/\ timeout' >= 0
       /\ \A t \in Runners :
             (pc[t] = "sl_wait" /\ pc'[t] # "sl_wait") => (timeout = 0 /\ timeout' = 0)
       /\ (\A t \in Runners : pc'[t] # "sl_wait") => timeout' = 0]_vars

\* C38 witness: two calls are in progress at once, everything both added
\* has been taken off, and one of them did more of the decrements than the
\* other.
C38_Witness ==
    /\ \A t \in Runners : pc[t] = "sl_wait"
    /\ timeout = 0
    /\ loc["main"].decs > loc["ctl"].decs

\* The controlling thread is inside the reconnect that relog calls.
InRelogReconnect == pc["ctl"] \notin {"idle", "rl_disc", "panicked"}

\* C35 as claimed: the reconnect that relog calls always returns false at
\* the running-flag checkpoint: it returns from nowhere else.
C35_RelogReturnsAtCheckpoint ==
    [][(InRelogReconnect /\ pc'["ctl"] = "idle") => pc["ctl"] = "rc_check"]_vars

\* C35 amended: relog clears is_running and is_redirecting, and with no
\* later logon is_running stays false; the reconnect relog calls never gets
\* to connect_to_server and leaves the checkpoint, when it reaches it, only
\* by returning false; the passive thread's next check ends it; and the
\* primary loop returns the next time it is at the top of its outer loop.
C35_RelogNeverReestablishes ==
    [][/\ (pc["ctl"] = "idle" /\ pc'["ctl"] # "idle")
            => (~is_running' /\ ~is_redirecting')
       /\ ~is_running => ~is_running'
       /\ pc'["ctl"] \notin {"rc_addr", "rc_conn"}
       /\ (pc["ctl"] = "rc_check" /\ pc'["ctl"] # "rc_check")
            => (pc'["ctl"] = "idle" /\ peer' = peer)
       /\ (~is_running /\ pc["poll"] = "poll_check" /\ pc'["poll"] # "poll_check")
            => pc'["poll"] = "done"
       /\ (~is_running /\ pc["main"] = "pe_top" /\ pc'["main"] # "pe_top")
            => pc'["main"] = "done"]_vars

\* C35 witness: a relog of a STEAM bot (no OAuth step to return from) has
\* returned from the checkpoint, and both the passive thread and the
\* primary loop have ended on the cleared flag.
C35_Witness ==
    /\ login_method = "STEAM"
    /\ ~is_running
    /\ pc["ctl"] = "idle"
    /\ pc["poll"] = "done"
    /\ pc["main"] = "done"

\* Sequence a is an initial part of sequence b.
IsPrefix(a, b) == Len(a) <= Len(b) /\ SubSeq(b, 1, Len(a)) = a

\* C31: no operation of a constructed bot (logon, reconnect, relog,
\* disconnect, a Disconnect event, the engine loop ending) removes an
\* identity from the proxy pool: in every step each entry's assignment list
\* stays as it is or is extended at its end.
C31_PoolEntriesOnlyGrow ==
    [][\A i \in 1..NumProxies : IsPrefix(proxies[i], proxies'[i])]_vars

\* C31 witness: the bot was relogged and disconnected and its engine loop
\* and passive thread have ended; its identity is still in the entry it
\* claimed, which has meanwhile grown by another bot's.
C31_Witness ==
    /\ pc["main"] = "done"
    /\ pc["poll"] = "done"
    /\ pc["ctl"] = "idle"
    /\ ~is_running
    /\ last.op = "disconnect"
    /\ proxies[1] = <<1, 2>>

\* find_path's loop passes to its next waypoint in this step.
PlaysWaypoint == act.op = "find_path" /\ act.path # <<>> /\ act'.path = Tail(act.path)

\* A find_path call follows a playback that came to its end.
StartsAfterPlayback ==
    /\ act.op = "find_path" /\ act.arg # <<>> /\ act.path = <<>>
    /\ act'.op = "find_path" /\ act'.path = act'.arg /\ act'.raws = <<>>

\* C40: for a waypoint tile (x, y) with y >= 0,
\* get_coordinate_to_touch_ground(32 * y) is 32 * y + 2 and find_path sets
\* the position to (32 * x, 32 * y + 2), whose floor division by 32 gives
\* the waypoint tile back; and the path of a find_path that follows a
\* finished playback is the one found from that playback's last waypoint.
C40_PositionOnWaypointTile ==
    [][/\ \A y \in Column : TouchGround(TileSize * y) = TileSize * y + 2
       /\ PlaysWaypoint =>
             LET node == Head(act.path) IN
             /\ node.y >= 0
             /\ position' = [x |-> TileSize * node.x, y |-> TileSize * node.y + 2]
             /\ TileOf(position'.x) = node.x
             /\ TileOf(position'.y) = node.y
       /\ StartsAfterPlayback =>
             LET end == act.arg[Len(act.arg)] IN
             \E gx \in Row, gy \in Column :
                 act'.arg = AStarPath(end.x, end.y, gx, gy)]_vars

\* C40 witness: a playback has ended on a tile of the highest row, away
\* from the column and the row it started in, and the next call's path
\* leads back from there.
C40_Witness ==
    /\ act.op = "find_path"
    /\ act.path # <<>>
    /\ act.path = act.arg
    /\ position = [x |-> TileSize * MaxPath, y |-> TileSize * MaxTileY + 2]
    /\ Head(act.path) = [x |-> MaxPath - 1, y |-> MaxTileY]

\* C32: the log buffer is append-only and the consumer moves every line
\* from the channel into it exactly once and in the order received: the
\* buffer only grows at its end, by the line the consumer holds; a step of
\* the consumer leaves the stream (buffer, line in hand, lines in flight)
\* as it is and a send extends it at its end; and the consumer ends only
\* with nothing in flight and every sender dropped.
C32_LogBufferAppendOnly ==
    [][/\ IsPrefix(logs, logs')
       /\ logs' # logs => logs' = logs \o logger.held
       /\ logger' # logger => Stream' = Stream
       /\ IsPrefix(Stream, Stream')
       /\ (logger.state # "stopped" /\ logger'.state = "stopped")
             => (channel.senders = 0 /\ channel.queue = <<>>)
       /\ logger.state = "stopped" => (logger' = logger /\ logs' = logs)]_vars

\* C32 witness: lines of one run are in the buffer, in the consumer's hand
\* and in flight at once, and the Bot's sender has a clone.
C32_Witness ==
    /\ Len(logs) >= 1
    /\ logger.state = "push"
    /\ Len(channel.queue) >= 2
    /\ channel.senders = MaxSenders

\* The status names a failure.
DescribesFailure(st) == st \in {f.failure : f \in Failures}

\* C33: whenever token acquisition, the OAuth-link request,
\* connect_to_server or a transport send fails, the status is updated to
\* describe the failure and a log line about it is emitted.
C33_FailureInStatusAndLog ==
    [][\A f \in Failures :
          Fails(f) =>
              /\ DescribesFailure(status')
              /\ \E i \in 1..Len(channel'.queue) : channel'.queue[i].text = f.failure]_vars

\* C34: warp while is_not_allowed_to_warp is set, leave while not in a
\* world, and walk while is_running is false or not in a world each hand
\* nothing to send_packet or send_packet_raw: no packet is emitted.
C34_GuardedActionsSendNothing ==
    [][/\ \A name \in WorldNames :
             (ActWarp(name) /\ is_not_allowed_to_warp)
                 => (last'.handed = <<>> /\ last'.wire = <<>>)
       /\ (ActLeave /\ ~IsInWorld(world))
             => (last'.handed = <<>> /\ last'.wire = <<>>)
       /\ \A x \in {0 - 1, 1}, ap \in BOOLEAN :
             (ActWalk(x, 0, ap) /\ (~is_running \/ ~IsInWorld(world)))
                 => act'.raws = <<>>]_vars

\* C34 witness: with a connected peer and the host free, a warp was
\* refused by the flag and a walk after a relog sent nothing, in a world.
C34_Witness ==
    /\ peer_id = "Some" /\ peer = "connected" /\ hostLock = "free"
    /\ is_not_allowed_to_warp
    /\ last.op = "warp" /\ last.handed = <<>>
    /\ IsInWorld(world)
    /\ ~is_running
    /\ act.op = "walk" /\ act.raws = <<>>

\* C39: every movement packet emitted during find_path playback carries
\* the pixel coordinates of the waypoint find_path has just written to
\* position, also while other threads call walk.
C39_PacketCarriesWaypoint ==
    [][(FindPathWalk /\ Len(act'.raws) > Len(act.raws)) =>
          LET node == Head(act.path)
              pkt == act'.raws[Len(act'.raws)]
          IN /\ pkt.vector_x = node.x * TileSize
             /\ pkt.vector_y = TouchGround(node.y * TileSize)]_vars

====
